---- MODULE Spec2Model ----
(***************************************************************************)
(* A model of the document annotation engine of GKD_report                 *)
(* (services/fileService, the revision kept as src/unnamed/part_000).      *)
(*                                                                         *)
(* Text is a sequence of one-character strings.  A CJK character is one    *)
(* element, written by its pinyin ("ping" "fen" is the two-character       *)
(* keyword U+8BC4 U+5206), so lengths and substring tests are those of the *)
(* JavaScript strings.                                                     *)
(***************************************************************************)
EXTENDS Integers, Sequences, FiniteSets, TLC

VARIABLES
    \* ---- getAnnotatedFileBlob (the pipeline) ----
    file,          \* the File: [type, name]
    libs,          \* which window.* helper libraries are loaded
    pc,            \* position of the async function
    reader,        \* the FileReader of annotateExcel: idle / reading / fired
    caught,        \* the error held by the catch clause ("" when none)
    outcome,       \* the promise returned to the caller
    \* ---- annotateWord ----
    wdoc,          \* xmlDoc: the parsed word/document.xml
    wargs,         \* result.score, result.teacher_comment, instructor
    wpass,         \* "cells", "paragraphs", "done" ("off" outside this machine)
    wi,            \* the loop index i of the running pass
    modifiedNodes, \* the Set of nodes already written
    wlog,          \* history: the calls of updateWordParagraph, in order
    wrun,          \* history: 1 in the first application, 2 in the second
    worig,         \* history: the document as given to the first application
    wfirst,        \* history: the document the first application returned
    \* ---- annotateExcel (the scan inside reader.onload) ----
    sheet,         \* workbook.Sheets[sheetName]: address -> cell object or NoCell
    xargs,         \* result.score, result.teacher_comment, instructor
    xpass,         \* "scan", "done" ("off" outside this machine)
    xR,            \* the loop variable R
    xC,            \* the loop variable C
    xlog,          \* history: the calls of writeToNextCell, in order
    xorig,         \* history: the sheet as read
    \* ---- annotatePdf: the keyword scan ----
    pdfPages,      \* per page, textContent.items: [str, x, y, charW, h]
    pinstr,        \* the instructor argument
    ppass,         \* "scan", "located" ("off" outside this machine)
    pPage,         \* the loop variable i (pages are numbered from 1)
    pcat,          \* the category findAndAdd is running for
    pkw,           \* the position in keywords.forEach (from 1)
    startIndex,    \* the variable startIndex of the while loop
    locations,     \* the array locations
    \* ---- annotatePdf: the layout of one comment region ----
    lloc,          \* loc: the region being drawn
    lpage,         \* page.getSize() and the comment text
    lctx,          \* whether canvas.getContext('2d') yields a context
    lpc,           \* "plan", "render", "draw", "drawn", "skipped" ("off" elsewhere)
    lplan,         \* drawX, targetTopY, finalWidth, moveDown
    limg,          \* commentImgData: [width, height, lines] or Null
    ldraw,         \* the argument of page.drawImage
    \* ---- annotatePdf: embedding the images and the loop over locations ----
    dlocs,         \* locations, as the scan left it
    dpage,         \* page.getSize(): [width, height]
    dargs,         \* result.score, result.teacher_comment, instructor, canvas context
    dfails,        \* the embed calls that raise: "signature", "score", "comment"
    dassets,       \* signatureImage, scoreImgData (NoImage for null)
    dk,            \* the position of the for-of loop in locations (from 1)
    drawn,         \* history: the page.drawImage calls, in order
    dphase,        \* "assets", "loop", "fallback", "save", "left" ("off" elsewhere)
    \* ---- getAnnotatedFileBlob: the arguments the fallback report is built from ----
    rargs,         \* result and instructor (<<>> where the report is not looked at)
    \* ---- two invocations of getAnnotatedFileBlob in flight ----
    kwlists,       \* the module-level arrays SCORE_, COMMENT_, INSTRUCTOR_KEYWORDS
    calls,         \* per invocation: its file, arguments, position and result
    arrays,        \* the PdfLocation arrays in memory, by the identity of the array
    \* ---- downloadBatchAsZip ----
    zitems,        \* the items: [file, throws] (throws: what raises in the call)
    zlibs,         \* window.JSZip and window.jspdf loaded or not
    zk,            \* the position of the for-of loop in items (from 1)
    zfolder,       \* the folder "Graded_Assignments": entry name -> item it holds
    zlog,          \* history: per item, "added", "failed" or "" (not reached)
    zphase,        \* "start", "loop", "done", "thrown" ("off" elsewhere)
    \* ---- the batch queue of App ----
    batchItems,        \* the committed state: per item [status, error, result]
    isQueueProcessing, \* the committed state of the flag
    updates,           \* the state updates queued and not yet rendered, in order
    effectDue,         \* a commit changed a dependency and its effect has not run yet
    inflight,          \* per item: the processItem calls that have not settled
    launched,          \* history: per item, the calls of processItem
    started,           \* history: per item, the renders that took it to 'processing'
    retries,           \* history: the clicks on a retry button
    \* ---- gradeWithGemini / gradeWithUniversalAPI ----
    engine,        \* "gemini" or "universal" ("off" elsewhere)
    attempt,       \* let attempt
    gpc,           \* "call" (about to call the provider), "returned", "thrown"
    replies,       \* history: what the provider answered to each call, in order
    delays         \* history: the sleep(ms) calls, in order

pipeVars == <<file, libs, pc, reader, caught, outcome>>
wordVars == <<wdoc, wargs, wpass, wi, modifiedNodes, wlog, wrun, worig, wfirst>>

xlsVars == <<sheet, xargs, xpass, xR, xC, xlog, xorig>>
pdfVars == <<pdfPages, pinstr, ppass, pPage, pcat, pkw, startIndex, locations>>
layoutVars == <<lloc, lpage, lctx, lpc, lplan, limg, ldraw>>
drawVars == <<dlocs, dpage, dargs, dfails, dassets, dk, drawn, dphase>>
twoVars == <<kwlists, calls, arrays>>
zipVars == <<zitems, zlibs, zk, zfolder, zlog, zphase>>
queueVars == <<batchItems, isQueueProcessing, updates, effectDue, inflight, launched,
               started, retries>>
gradeVars == <<engine, attempt, gpc, replies, delays>>
laterVars == <<zipVars, queueVars, gradeVars>>
notPipe == <<wordVars, xlsVars, pdfVars, layoutVars, drawVars, rargs, twoVars, laterVars>>
notWord == <<pipeVars, xlsVars, pdfVars, layoutVars, drawVars, rargs, twoVars, laterVars>>
notXls == <<pipeVars, wordVars, pdfVars, layoutVars, drawVars, rargs, twoVars, laterVars>>
notPdf == <<pipeVars, wordVars, xlsVars, layoutVars, drawVars, rargs, twoVars, laterVars>>
notLayout == <<pipeVars, wordVars, xlsVars, pdfVars, drawVars, rargs, twoVars, laterVars>>
\* what the draw phase of annotatePdf leaves alone: it runs inside a call of
\* getAnnotatedFileBlob and ends it
notDraw == <<wordVars, xlsVars, pdfVars, layoutVars, rargs, twoVars, laterVars>>

vars == <<pipeVars, wordVars, xlsVars, pdfVars, layoutVars, drawVars, rargs, twoVars,
          laterVars>>

-----------------------------------------------------------------------------
(* String.prototype helpers, as the code uses them.                        *)

Min(a, b) == IF a < b THEN a ELSE b
Max(a, b) == IF a > b THEN a ELSE b

\* s.includes(k)
includes(s, k) ==
    \E i \in 0..(Len(s) - Len(k)) : SubSeq(s, i + 1, i + Len(k)) = k

\* s.endsWith(suffix)
endsWith(s, suffix) ==
    /\ Len(suffix) <= Len(s)
    /\ SubSeq(s, Len(s) - Len(suffix) + 1, Len(s)) = suffix

\* s.indexOf(k, start): the least index >= start (0-based) where k occurs, or -1
indexOf(s, k, start) ==
    LET hits == {i \in start..(Len(s) - Len(k)) : SubSeq(s, i + 1, i + Len(k)) = k}
    IN  IF hits = {} THEN -1 ELSE CHOOSE i \in hits : \A j \in hits : i <= j

UpperToLower ==
    [c \in {"D", "O", "C", "X", "L", "S", "P", "F"} |->
        CASE c = "D" -> "d" [] c = "O" -> "o" [] c = "C" -> "c" [] c = "X" -> "x"
          [] c = "L" -> "l" [] c = "S" -> "s" [] c = "P" -> "p" [] c = "F" -> "f"]

\* s.toLowerCase(), on the letters that occur in the modelled file names
toLowerCase(s) ==
    [i \in 1..Len(s) |-> IF s[i] \in DOMAIN UpperToLower THEN UpperToLower[s[i]] ELSE s[i]]

-----------------------------------------------------------------------------
(* Keyword lists (part_000 lines 5-7).                                     *)

\* The comparator (a, b) => b.length - a.length of the three sorts:
\* a negative result keeps a before b.
RECURSIVE InsertByLength(_, _)
InsertByLength(sorted, k) ==
    IF sorted = <<>> THEN <<k>>
    ELSE IF Len(k) - Len(sorted[Len(sorted)]) > 0
         THEN Append(InsertByLength(SubSeq(sorted, 1, Len(sorted) - 1), k),
                     sorted[Len(sorted)])
         ELSE Append(sorted, k)

RECURSIVE SortFrom(_, _, _)
SortFrom(list, n, acc) ==
    IF n > Len(list) THEN acc
    ELSE SortFrom(list, n + 1, InsertByLength(acc, list[n]))

\* list.sort((a, b) => b.length - a.length): stable, longest keyword first
SortByLengthDesc(list) == SortFrom(list, 1, <<>>)

SCORE_KEYWORDS ==
    SortByLengthDesc(<<
      <<"ping", "fen">>,
      <<"de", "fen">>,
      <<"fen", "shu">>,
      <<"S", "c", "o", "r", "e">>,
      <<"G", "r", "a", "d", "e">>,
      <<"P", "o", "i", "n", "t", "s">>,
      <<"M", "a", "r", "k">> >>)

COMMENT_KEYWORDS ==
    SortByLengthDesc(<<
      <<"T", "e", "a", "c", "h", "e", "r", " ", "C", "o", "m", "m", "e", "n", "t", "s">>,
      <<"jiao", "shi", "ping", "yu">>,
      <<"lao", "shi", "ping", "yu">>,
      <<"ping", "yu">>,
      <<"jian", "yi">>,
      <<"ping", "jia">>,
      <<"C", "o", "m", "m", "e", "n", "t", "s">>,
      <<"F", "e", "e", "d", "b", "a", "c", "k">>,
      <<"R", "e", "m", "a", "r", "k", "s">> >>)

INSTRUCTOR_KEYWORDS ==
    SortByLengthDesc(<<
      <<"zhi", "dao", "jiao", "shi">>,
      <<"jiao", "shi", "qian", "ming">>,
      <<"qian", "ming">>,
      <<"I", "n", "s", "t", "r", "u", "c", "t", "o", "r">>,
      <<"T", "e", "a", "c", "h", "e", "r">>,
      <<"S", "i", "g", "n", "a", "t", "u", "r", "e">>,
      <<"S", "i", "g", "n", "e", "d", " ", "b", "y">> >>)

\* KEYWORDS.some(k => text.includes(k))
someIncludes(keywords, text) ==
    \E n \in 1..Len(keywords) : includes(text, keywords[n])

-----------------------------------------------------------------------------
(* getAnnotatedFileBlob and the entry and exit of the three annotators.    *)

WORD  == "application/vnd.openxmlformats-officedocument.wordprocessingml.document"
EXCEL == "application/vnd.openxmlformats-officedocument.spreadsheetml.sheet"
PDF   == "application/pdf"
UNKNOWN == "unknown"

DotDocx == <<".", "d", "o", "c", "x">>
DotXlsx == <<".", "x", "l", "s", "x">>
DotPdf  == <<".", "p", "d", "f">>

getMimeTypeFromExtension(name) ==
    LET lower == toLowerCase(name)
    IN  IF endsWith(lower, DotDocx) THEN WORD
        ELSE IF endsWith(lower, DotXlsx) THEN EXCEL
        ELSE IF endsWith(lower, DotPdf) THEN PDF
        ELSE UNKNOWN

\* const fileType = file.type || getMimeTypeFromExtension(file.name)
FileTypeOf(f) == IF f.type # "" THEN f.type ELSE getMimeTypeFromExtension(f.name)

\* The if / else-if chain of the try block: which annotator runs.
AnnotatorFor(f) ==
    IF FileTypeOf(f) = WORD \/ endsWith(f.name, DotDocx) THEN "word"
    ELSE IF FileTypeOf(f) = EXCEL \/ endsWith(f.name, DotXlsx) THEN "excel"
    ELSE IF FileTypeOf(f) = PDF \/ endsWith(f.name, DotPdf) THEN "pdf"
    ELSE "unsupported"

ErrUnsupported == "Unsupported file type for annotation"
ErrNoJsPdf     == "jsPDF not loaded"

Pending == [state |-> "pending", blob |-> "none", extension |-> "", error |-> ""]
Resolved(blob, ext) == [state |-> "resolved", blob |-> blob, extension |-> ext, error |-> ""]
Rejected(e) == [state |-> "rejected", blob |-> "none", extension |-> "", error |-> e]

\* A catch clause that hands the caught error on to the caller.
RethrowCaught(l, e) == Rejected(e)

\* The catch clause: blob = generateReportPDFBlob(...); return {blob, extension: 'pdf'}.
\* generateReportPDFBlob throws when window.jspdf is missing, and nothing catches that.
CatchClause(l, e) ==
    IF l.jspdf THEN Resolved("report", "pdf") ELSE Rejected(ErrNoJsPdf)

FileTypes == {"", WORD, EXCEL, PDF, "text/plain"}
FileNames ==
    { <<"a", ".", "d", "o", "c", "x">>,
      <<"a", ".", "D", "O", "C", "X">>,
      <<"a", ".", "x", "l", "s", "x">>,
      <<"a", ".", "p", "d", "f">>,
      <<"a", ".", "P", "D", "F">>,
      <<"a", ".", "t", "x", "t">>,
      <<"b", ".", "d", "o", "c", "x", ".", "b", "a", "k">> }
Libs == [JSZip : BOOLEAN, XLSX : BOOLEAN, pdfjsLib : BOOLEAN, PDFLib : BOOLEAN,
         jspdf : BOOLEAN]

\* The other machines at rest.
CallsOff ==
    /\ kwlists = <<>>
    /\ calls = <<>>
    /\ arrays = <<>>

ZipOff ==
    /\ zitems = <<>>
    /\ zlibs = <<>>
    /\ zk = 0
    /\ zfolder = <<>>
    /\ zlog = <<>>
    /\ zphase = "off"

QueueOff ==
    /\ batchItems = <<>>
    /\ isQueueProcessing = FALSE
    /\ updates = <<>>
    /\ effectDue = FALSE
    /\ inflight = <<>>
    /\ launched = <<>>
    /\ started = <<>>
    /\ retries = 0

GradeOff ==
    /\ engine = "off"
    /\ attempt = 0
    /\ gpc = "off"
    /\ replies = <<>>
    /\ delays = <<>>

LaterOff == ZipOff /\ QueueOff /\ GradeOff

PipeIdle ==
    /\ file = [type |-> "", name |-> <<>>]
    /\ libs = [JSZip |-> TRUE, XLSX |-> TRUE, pdfjsLib |-> TRUE, PDFLib |-> TRUE,
               jspdf |-> TRUE]
    /\ pc = "off"
    /\ reader = "idle"
    /\ caught = ""
    /\ outcome = Pending
    /\ rargs = <<>>
    /\ CallsOff

PipeOff ==
    /\ PipeIdle
    /\ LaterOff

WordOff ==
    /\ wdoc = <<>>
    /\ wargs = <<>>
    /\ wpass = "off"
    /\ wi = 0
    /\ modifiedNodes = {}
    /\ wlog = <<>>
    /\ wrun = 0
    /\ worig = <<>>
    /\ wfirst = <<>>

XlsOff ==
    /\ sheet = <<>>
    /\ xargs = <<>>
    /\ xpass = "off"
    /\ xR = 0
    /\ xC = 0
    /\ xlog = <<>>
    /\ xorig = <<>>

PdfOff ==
    /\ pdfPages = <<>>
    /\ pinstr = <<>>
    /\ ppass = "off"
    /\ pPage = 0
    /\ pcat = ""
    /\ pkw = 0
    /\ startIndex = 0
    /\ locations = <<>>

LayoutOff ==
    /\ lloc = <<>>
    /\ lpage = <<>>
    /\ lctx = FALSE
    /\ lpc = "off"
    /\ lplan = <<>>
    /\ limg = <<>>
    /\ ldraw = <<>>

DrawOff ==
    /\ dlocs = <<>>
    /\ dpage = <<>>
    /\ dargs = <<>>
    /\ dfails = {}
    /\ dassets = <<>>
    /\ dk = 0
    /\ drawn = <<>>
    /\ dphase = "off"

InitPipe ==
    /\ file \in [type : FileTypes, name : FileNames]
    /\ libs \in Libs
    /\ pc = "start"
    /\ reader = "idle"
    /\ caught = ""
    /\ outcome = Pending
    /\ WordOff
    /\ XlsOff
    /\ PdfOff
    /\ LayoutOff
    /\ DrawOff
    /\ rargs = <<>>
    /\ CallsOff
    /\ LaterOff

Throw(e) ==
    /\ pc' = "catch"
    /\ caught' = e
    /\ UNCHANGED <<file, libs, reader, outcome, notPipe>>

Goto(p) ==
    /\ pc' = p
    /\ UNCHANGED <<file, libs, reader, caught, outcome, notPipe>>

Return(blob, ext) ==
    /\ pc' = "done"
    /\ outcome' = Resolved(blob, ext)
    /\ UNCHANGED <<file, libs, reader, caught, notPipe>>

\* lines 241-253: enter the try block and pick the annotator
Dispatch ==
    /\ pc = "start"
    /\ IF AnnotatorFor(file) = "unsupported"
       THEN Throw(ErrUnsupported)
       ELSE Goto(AnnotatorFor(file))

\* annotateWord, line 306
WordEnter ==
    /\ pc = "word"
    /\ IF ~libs.JSZip THEN Throw("JSZip not loaded") ELSE Goto("word_load")

\* annotateWord, lines 308-313: read the bytes, open the zip, find document.xml
WordLoad ==
    /\ pc = "word_load"
    /\ \E r \in {"ok", "corrupt", "nodoc"} :
         CASE r = "ok"      -> Goto("word_annotate")
           [] r = "corrupt" -> Throw("zip load failed")
           [] r = "nodoc"   -> Throw("Invalid Docx")

\* annotateWord, lines 315-371: the two passes, serialisation, generateAsync
WordFinish ==
    /\ pc = "word_annotate"
    /\ \E ok \in BOOLEAN :
         IF ok THEN Return("docx", "docx") ELSE Throw("zip write failed")

\* annotateExcel, lines 407-410 and 446-447: the library check runs in the async
\* function; then the promise is created and the read is started
ExcelEnter ==
    /\ pc = "excel"
    /\ IF ~libs.XLSX
       THEN Throw("XLSX not loaded")
       ELSE /\ pc' = "excel_await"
            /\ reader' = "reading"
            /\ UNCHANGED <<file, libs, caught, outcome, notPipe>>

\* annotateExcel, line 446: reader.onerror rejects the promise
ReaderOnError ==
    /\ pc = "excel_await"
    /\ reader = "reading"
    /\ pc' = "catch"
    /\ caught' = "File reading failed"
    /\ reader' = "fired"
    /\ UNCHANGED <<file, libs, outcome, notPipe>>

\* annotateExcel, lines 411-445: reader.onload.  XLSX.read, the scan and XLSX.write
\* run in the callback with no try around them: when one throws, the callback ends
\* before resolve(...) and nothing rejects the promise.
ReaderOnLoad ==
    /\ pc = "excel_await"
    /\ reader = "reading"
    /\ \E r \in {"ok", "throws"} :
         IF r = "ok"
         THEN /\ pc' = "done"
              /\ outcome' = Resolved("xlsx", "xlsx")
              /\ reader' = "fired"
              /\ UNCHANGED <<file, libs, caught, notPipe>>
         ELSE /\ reader' = "fired"
              /\ UNCHANGED <<file, libs, pc, caught, outcome, notPipe>>

\* annotatePdf, line 462
PdfEnter ==
    /\ pc = "pdf"
    /\ IF ~libs.pdfjsLib \/ ~libs.PDFLib
       THEN Throw("PDF libraries not loaded")
       ELSE Goto("pdf_scan")

\* annotatePdf, lines 464-558: pdf.js opens the document and the pages are scanned
PdfScan ==
    /\ pc = "pdf_scan"
    /\ \E ok \in BOOLEAN :
         IF ok THEN Goto("pdf_draw") ELSE Throw("pdf.js failed")

\* annotatePdf, lines 560-711: PDFLib loads, embeds, draws and saves
PdfFinish ==
    /\ pc = "pdf_draw"
    /\ \E ok \in BOOLEAN :
         IF ok THEN Return("pdf", "pdf") ELSE Throw("PDFLib failed")

\* lines 256-260
Catch ==
    /\ pc = "catch"
    /\ pc' = "done"
    /\ outcome' = CatchClause(libs, caught)
    /\ UNCHANGED <<file, libs, reader, caught, notPipe>>

NextPipe ==
    \/ Dispatch
    \/ WordEnter
    \/ WordLoad
    \/ WordFinish
    \/ ExcelEnter
    \/ ReaderOnError
    \/ ReaderOnLoad
    \/ PdfEnter
    \/ PdfScan
    \/ PdfFinish
    \/ Catch

SpecPipe == InitPipe /\ [][NextPipe]_vars

Spec == SpecPipe

-----------------------------------------------------------------------------
(* Claims about getAnnotatedFileBlob.                                      *)

Settled == outcome.state # "pending"

\* C1: getAnnotatedFileBlob never rejects: whatever the file, the failure inside an
\* annotator and the set of loaded libraries, the promise is not rejected.
C1_NeverRejects == outcome.state # "rejected"

\* C2: every call eventually settles: a call that can take no further step has
\* resolved or rejected its promise (in particular after a throw inside the
\* FileReader onload callback of annotateExcel).
C2_EventuallySettles == (~ ENABLED NextPipe) => Settled

\* The format cannot be identified: the MIME type (or, when the File has none, the
\* type read off the lower-cased name) is none of Word, Excel, PDF, and the name
\* ends in none of .docx, .xlsx, .pdf.
FormatUnidentified(f) ==
    /\ f.type \notin {WORD, EXCEL, PDF}
    /\ f.type = "" =>
          \A ext \in {DotDocx, DotXlsx, DotPdf} : ~ endsWith(toLowerCase(f.name), ext)
    /\ \A ext \in {DotDocx, DotXlsx, DotPdf} : ~ endsWith(f.name, ext)

\* C4 as stated: a file of unidentified format ends with the unsupported-format
\* error surfaced to the caller and no artifact.
C4_UnsupportedSurfaced ==
    (FormatUnidentified(file) /\ pc = "done") => outcome = Rejected(ErrUnsupported)

\* C4 as amended: the unsupported-format error never reaches the caller.  It is
\* caught like every other failure: the call ends with the fallback report and
\* extension 'pdf' when jsPDF is loaded, and with the rejection "jsPDF not loaded"
\* when it is not.
C4_UnsupportedFallsBack ==
    /\ outcome.error # ErrUnsupported
    /\ (FormatUnidentified(file) /\ pc = "done") => caught = ErrUnsupported
    /\ (caught # "" /\ pc = "done") =>
          /\ libs.jspdf => outcome = Resolved("report", "pdf")
          /\ ~ libs.jspdf => outcome = Rejected(ErrNoJsPdf)

C4_Witness ==
    /\ FormatUnidentified(file)
    /\ pc = "done"
    /\ caught = ErrUnsupported
    /\ outcome = Resolved("report", "pdf")


-----------------------------------------------------------------------------
(* annotateWord and updateWordParagraph (part_000 lines 305-404).          *)
(*                                                                         *)
(* word/document.xml is one table row of cells (w:tc) followed by the      *)
(* paragraphs (w:p) of the body.  A cell of the row is [nested, paras]: a  *)
(* nested table of one row, given as the sequence of its cells (empty when *)
(* the cell holds no table), followed by the paragraphs of the cell; a     *)
(* nested cell is a sequence of paragraphs.  A paragraph is                *)
(* [pPr, runs, inner]: whether it has a w:pPr child, its w:r children, and *)
(* the w:p that updateWordParagraph appends inside it when the paragraph   *)
(* itself is the parent (at most one, never with an inner of its own).  A  *)
(* run is [text, color, font].                                             *)

RECURSIVE Flatten(_)
Flatten(ss) == IF ss = <<>> THEN <<>> ELSE Head(ss) \o Flatten(Tail(ss))

Digits == <<"0", "1", "2", "3", "4", "5", "6", "7", "8", "9">>

\* `${n}` for a non-negative integer
RECURSIVE DecimalString(_)
DecimalString(n) ==
    IF n < 10 THEN <<Digits[n + 1]>>
    ELSE DecimalString(n \div 10) \o <<Digits[(n % 10) + 1]>>

\* a run whose w:rPr lost its w:color child
RunWithoutColour(text, colorHex, fontName) == [text |-> text, color |-> "", font |-> fontName]
Run(text, colorHex, fontName) == [text |-> text, color |-> colorHex, font |-> fontName]
PlainRun(text) == Run(text, "", "")
Para(pPr, text) ==
    [pPr |-> pPr, runs |-> IF text = <<>> THEN <<>> ELSE <<PlainRun(text)>>, inner |-> <<>>]
Cell(paras) == [nested |-> <<>>, paras |-> paras]

\* Node identities.  <<"tc", c, 0>> is cell c of the row and <<"tc", c, n>> the
\* n-th cell of the table nested in it.  <<"p", c, n, j>> is paragraph j of that
\* cell, or of the body when c = 0, and <<"ip", c, n, j>> the w:p inside it.
ParasOf(doc, c, n) ==
    IF c = 0 THEN doc.body
    ELSE IF n = 0 THEN doc.row[c].paras
    ELSE doc.row[c].nested[n]
ParaAt(doc, id) == ParasOf(doc, id[2], id[3])[id[4]]

\* node.textContent
runsText(runs) == Flatten([n \in 1..Len(runs) |-> runs[n].text])
paraText(p) ==
    runsText(p.runs) \o (IF p.inner = <<>> THEN <<>> ELSE runsText(p.inner[1].runs))
parasText(ps) == Flatten([n \in 1..Len(ps) |-> paraText(ps[n])])
outerCellText(cell) ==
    Flatten([n \in 1..Len(cell.nested) |-> parasText(cell.nested[n])])
        \o parasText(cell.paras)
cellText(doc, id) ==
    IF id[3] = 0 THEN outerCellText(doc.row[id[2]])
    ELSE parasText(doc.row[id[2]].nested[id[3]])
docText(doc) ==
    Flatten([c \in 1..Len(doc.row) |-> outerCellText(doc.row[c])]) \o parasText(doc.body)

\* xmlDoc.getElementsByTagName("w:tc"), in document order
Cells(doc) ==
    Flatten([c \in 1..Len(doc.row) |->
               << <<"tc", c, 0>> >>
                   \o [n \in 1..Len(doc.row[c].nested) |-> <<"tc", c, n>>]])

\* xmlDoc.getElementsByTagName("w:p"), a live list in document order
ParagraphsOfGroup(doc, c, n) ==
    Flatten([j \in 1..Len(ParasOf(doc, c, n)) |->
               IF ParasOf(doc, c, n)[j].inner = <<>>
               THEN << <<"p", c, n, j>> >>
               ELSE << <<"p", c, n, j>>, <<"ip", c, n, j>> >>])
ParagraphsOfCell(doc, c) ==
    Flatten([n \in 1..Len(doc.row[c].nested) |-> ParagraphsOfGroup(doc, c, n)])
        \o ParagraphsOfGroup(doc, c, 0)
Paragraphs(doc) ==
    Flatten([c \in 1..Len(doc.row) |-> ParagraphsOfCell(doc, c)])
        \o ParagraphsOfGroup(doc, 0, 0)

\* node.textContent of a w:p of the list
NodeText(doc, id) ==
    IF id[1] = "p" THEN paraText(ParaAt(doc, id))
    ELSE runsText(ParaAt(doc, id).inner[1].runs)

\* p.nextElementSibling restricted to w:p elements: <<>> stands for null or for
\* an element of another tag (the w:sectPr that ends the body)
NextParagraph(doc, id) ==
    IF id[1] = "p" /\ id[4] < Len(ParasOf(doc, id[2], id[3]))
    THEN <<"p", id[2], id[3], id[4] + 1>>
    ELSE <<>>

\* cell.nextElementSibling: <<>> stands for null
NextCell(doc, id) ==
    IF id[3] = 0
    THEN IF id[2] < Len(doc.row) THEN <<"tc", id[2] + 1, 0>> ELSE <<>>
    ELSE IF id[3] < Len(doc.row[id[2]].nested) THEN <<"tc", id[2], id[3] + 1>> ELSE <<>>

\* parent.getElementsByTagName("w:p")[0] for a cell: the first w:p below it in
\* document order, <<>> when there is none
FirstParagraphBelow(doc, id) ==
    LET c == id[2]
        withParas == {n \in 1..Len(doc.row[c].nested) : doc.row[c].nested[n] # <<>>}
    IN  IF id[3] # 0
        THEN IF doc.row[c].nested[id[3]] # <<>> THEN <<"p", c, id[3], 1>> ELSE <<>>
        ELSE IF withParas # {}
             THEN <<"p", c, CHOOSE n \in withParas : \A m \in withParas : n <= m, 1>>
             ELSE IF doc.row[c].paras # <<>> THEN <<"p", c, 0, 1>> ELSE <<>>

\* the document with paragraph id replaced by q
WithPara(doc, id, q) ==
    IF id[2] = 0 THEN [doc EXCEPT !.body[id[4]] = q]
    ELSE IF id[3] = 0 THEN [doc EXCEPT !.row[id[2]].paras[id[4]] = q]
    ELSE [doc EXCEPT !.row[id[2]].nested[id[3]][id[4]] = q]

\* the document with q appended as the last child of cell id
WithNewPara(doc, id, q) ==
    IF id[3] = 0 THEN [doc EXCEPT !.row[id[2]].paras = Append(@, q)]
    ELSE [doc EXCEPT !.row[id[2]].nested[id[3]] = Append(@, q)]

\* lines 380-403 on the paragraph p: every child is removed, the w:pPr found
\* before is appended again, then the new run
RewriteParagraph(p, r) == [pPr |-> p.pPr, runs |-> <<r>>, inner |-> <<>>]

\* updateWordParagraph with a paragraph as parent: getElementsByTagName looks
\* below the parent only, so p is the w:p inside it, or a new one appended to it
UpdateParagraph(p, r) ==
    [p EXCEPT !.inner =
        IF p.inner = <<>>
        THEN << [pPr |-> FALSE, runs |-> <<r>>] >>
        ELSE << [pPr |-> p.inner[1].pPr, runs |-> <<r>>] >>]

\* updateWordParagraph(xmlDoc, parent, text, colorHex, fontName)
updateWordParagraph(doc, parent, text, colorHex, fontName) ==
    LET r == Run(text, colorHex, fontName)
        p == FirstParagraphBelow(doc, parent)
    IN  IF parent[1] = "tc"
        THEN IF p = <<>>
             THEN WithNewPara(doc, parent, RewriteParagraph(Para(FALSE, <<>>), r))
             ELSE WithPara(doc, p, RewriteParagraph(ParaAt(doc, p), r))
        ELSE WithPara(doc, parent, UpdateParagraph(ParaAt(doc, parent), r))

\* the w:p that updateWordParagraph(parent) writes the run into
WrittenParagraph(doc, parent) ==
    IF parent[1] = "tc"
    THEN IF FirstParagraphBelow(doc, parent) = <<>>
         THEN <<"p", parent[2], parent[3], Len(ParasOf(doc, parent[2], parent[3])) + 1>>
         ELSE FirstParagraphBelow(doc, parent)
    ELSE <<"ip", parent[2], parent[3], parent[4]>>

\* !modifiedNodes.has(node)
Unclaimed(mod, node) == node \notin mod

Slash100Cell == <<" ", "/", " ", "1", "0", "0">>
Slash100Para == <<"/", "1", "0", "0">>
AIGrader == <<"A", "I", " ", "G", "r", "a", "d", "e", "r">>

\* instructor.name || "AI Grader"
SignText(instructor) == IF instructor.name # <<>> THEN instructor.name ELSE AIGrader
\* (instructor.fontStyle === 'artistic') ? 'KaiTi' : undefined
SignFont(instructor) == IF instructor.fontStyle = "artistic" THEN "KaiTi" ELSE ""

\* instructor && instructor.enabled
InstructorEnabled(a) == a.instructor.given /\ a.instructor.enabled

\* A pass state is [doc, mod, log].  One of the three if-blocks of the cell loop
\* (lines 327-349), for the cell whose text was read at the top of the iteration.
WriteCell(st, cell, category, text, colorHex, fontName) ==
    LET nextCell == NextCell(st.doc, cell)
    IN  IF nextCell # <<>> /\ Unclaimed(st.mod, nextCell)
        THEN [doc |-> updateWordParagraph(st.doc, nextCell, text, colorHex, fontName),
              mod |-> st.mod \cup {nextCell},
              log |-> Append(st.log, [target |-> nextCell, category |-> category,
                                      label |-> cell, pass |-> "cells",
                                      node |-> WrittenParagraph(st.doc, nextCell)])]
        ELSE st

\* One iteration of the cell loop, lines 324-349
CellIteration(st, cell, a) ==
    LET textContent == cellText(st.doc, cell)
        s1 == IF someIncludes(SCORE_KEYWORDS, textContent)
              THEN WriteCell(st, cell, "score", DecimalString(a.score) \o Slash100Cell,
                             "FF0000", "")
              ELSE st
        s2 == IF someIncludes(COMMENT_KEYWORDS, textContent)
              THEN WriteCell(s1, cell, "comment", a.teacher_comment, "FF0000", "")
              ELSE s1
        s3 == IF InstructorEnabled(a) /\ someIncludes(INSTRUCTOR_KEYWORDS, textContent)
              THEN WriteCell(s2, cell, "instructor", SignText(a.instructor), "000000",
                             SignFont(a.instructor))
              ELSE s2
    IN  s3

\* SCORE_KEYWORDS.some(k => text === k || text.includes(k + ":"))
IsScoreHeading(text) ==
    \E n \in 1..Len(SCORE_KEYWORDS) :
        \/ text = SCORE_KEYWORDS[n]
        \/ includes(text, Append(SCORE_KEYWORDS[n], ":"))

ShortTextLimit == 20

\* One iteration of the paragraph loop, lines 354-364, for paragraphs[i] = id
ParagraphIteration(st, id, a) ==
    LET text  == NodeText(st.doc, id)
        nextP == NextParagraph(st.doc, id)
    IN  IF /\ IsScoreHeading(text)
           /\ nextP # <<>>
           /\ Unclaimed(st.mod, nextP)
           /\ paraText(ParaAt(st.doc, nextP)) # <<>>
           /\ Len(paraText(ParaAt(st.doc, nextP))) < ShortTextLimit
        THEN [doc |-> updateWordParagraph(st.doc, nextP,
                          DecimalString(a.score) \o Slash100Para, "FF0000", ""),
              mod |-> st.mod \cup {nextP},
              log |-> Append(st.log, [target |-> nextP, category |-> "score",
                                      label |-> id, pass |-> "paragraphs",
                                      node |-> WrittenParagraph(st.doc, nextP)])]
        ELSE st

\* ---- the inputs explored ----

MaxCells == 3          \* cells in the row of a document without body paragraphs
MaxCellsWithBody == 1  \* cells in the row of a document with body paragraphs
MaxBody == 2           \* body paragraphs

KwPingFen == <<"ping", "fen">>
KwJiaoShiPingYu == <<"jiao", "shi", "ping", "yu">>
KwTeacherComments ==
    <<"T", "e", "a", "c", "h", "e", "r", " ", "C", "o", "m", "m", "e", "n", "t", "s">>
TxtScore == <<"S", "c", "o", "r", "e">>
TxtScoreColon == <<"S", "c", "o", "r", "e", ":">>
TxtGradeColon == <<"G", "r", "a", "d", "e", ":">>
TxtMyScore == <<"M", "y", " ", "S", "c", "o", "r", "e">>
TxtScoreColonPts == <<"S", "c", "o", "r", "e", ":", " ", "p", "t", "s">>
TxtAb == <<"a", "b">>
TxtOld == <<"o", "l", "d">>
TxtMore == <<"m", "o", "r", "e">>
TxtLong == [n \in 1..ShortTextLimit |-> "x"]
TxtOk == <<"o", "k">>
TxtJianYi == <<"jian", "yi", "!">>
TxtGradeA == <<"G", "r", "a", "d", "e", " ", "A">>
TxtLi == <<"L", "i">>

KwPingYu == <<"ping", "yu">>
KwDeFen == <<"de", "fen">>

CellChoices ==
    { Cell(<<>>),
      Cell(<< Para(TRUE, <<>>) >>),
      Cell(<< Para(FALSE, KwPingFen) >>),
      Cell(<< Para(TRUE, KwJiaoShiPingYu) >>),
      Cell(<< Para(FALSE, KwTeacherComments) >>),
      Cell(<< Para(FALSE, TxtScoreColon), Para(TRUE, TxtAb) >>),
      Cell(<< Para(TRUE, TxtOld), Para(FALSE, TxtMore) >>),
      [nested |-> << << Para(FALSE, KwPingYu) >>, << Para(FALSE, KwDeFen) >> >>,
       paras |-> << Para(FALSE, <<>>) >>] }

BodyChoices ==
    { Para(FALSE, TxtScore), Para(TRUE, TxtGradeColon), Para(TRUE, TxtAb),
      Para(FALSE, <<>>), Para(FALSE, TxtLong), Para(FALSE, TxtMyScore),
      Para(FALSE, TxtScoreColonPts) }

SeqsUpTo(S, n) == UNION {[1..m -> S] : m \in 0..n}

\* a table row of a score label, an empty cell, a comment label and an empty cell
EmptyCells == {Cell(<<>>), Cell(<< Para(TRUE, <<>>) >>), Cell(<< Para(FALSE, <<>>) >>)}
LabelledRows ==
    {[row |-> << Cell(<< Para(FALSE, KwPingFen) >>), e1,
                 Cell(<< Para(TRUE, KwJiaoShiPingYu) >>), e2 >>,
      body |-> <<>>] : e1 \in EmptyCells, e2 \in EmptyCells}

DocChoices ==
    LabelledRows
      \cup {[row |-> r, body |-> <<>>] : r \in SeqsUpTo(CellChoices, MaxCells)}
      \cup {[row |-> r, body |-> b] :
               r \in SeqsUpTo(CellChoices, MaxCellsWithBody),
               b \in SeqsUpTo(BodyChoices, MaxBody)}

NoInstructor == [given |-> FALSE, enabled |-> FALSE, name |-> <<>>, fontStyle |-> ""]
InstructorChoices ==
    { NoInstructor,
      [given |-> TRUE, enabled |-> FALSE, name |-> TxtLi, fontStyle |-> "standard"],
      [given |-> TRUE, enabled |-> TRUE, name |-> <<>>, fontStyle |-> "standard"],
      [given |-> TRUE, enabled |-> TRUE, name |-> TxtLi, fontStyle |-> "artistic"] }

ArgChoices ==
    [score : {87},
     teacher_comment : {TxtOk, TxtJianYi, TxtGradeA, TxtScoreColon},
     instructor : InstructorChoices]

InitWord ==
    /\ PipeOff
    /\ XlsOff
    /\ PdfOff
    /\ LayoutOff
    /\ DrawOff
    /\ wdoc \in DocChoices
    /\ wargs \in ArgChoices
    /\ wpass = "cells"
    /\ wi = 0
    /\ modifiedNodes = {}
    /\ wlog = <<>>
    /\ wrun = 1
    /\ worig = wdoc
    /\ wfirst = <<>>

PassState == [doc |-> wdoc, mod |-> modifiedNodes, log |-> wlog]

\* lines 323-350: one iteration of the loop over cells
CellStep ==
    /\ wpass = "cells"
    /\ wi < Len(Cells(wdoc))
    /\ LET st == CellIteration(PassState, Cells(wdoc)[wi + 1], wargs)
       IN  /\ wdoc' = st.doc
           /\ modifiedNodes' = st.mod
           /\ wlog' = st.log
    /\ wi' = wi + 1
    /\ UNCHANGED <<wargs, wpass, wrun, worig, wfirst, notWord>>

\* the cell loop ends and the paragraph loop begins
CellsDone ==
    /\ wpass = "cells"
    /\ wi = Len(Cells(wdoc))
    /\ wpass' = "paragraphs"
    /\ wi' = 0
    /\ UNCHANGED <<wdoc, wargs, modifiedNodes, wlog, wrun, worig, wfirst, notWord>>

\* lines 353-365: one iteration of the loop over the live paragraph list
ParagraphStep ==
    /\ wpass = "paragraphs"
    /\ wi < Len(Paragraphs(wdoc))
    /\ LET st == ParagraphIteration(PassState, Paragraphs(wdoc)[wi + 1], wargs)
       IN  /\ wdoc' = st.doc
           /\ modifiedNodes' = st.mod
           /\ wlog' = st.log
    /\ wi' = wi + 1
    /\ UNCHANGED <<wargs, wpass, wrun, worig, wfirst, notWord>>

\* lines 367-371: the document is serialised and returned
WordReturn ==
    /\ wpass = "paragraphs"
    /\ wi = Len(Paragraphs(wdoc))
    /\ wpass' = "done"
    /\ UNCHANGED <<wdoc, wargs, wi, modifiedNodes, wlog, wrun, worig, wfirst, notWord>>

\* annotateWord is applied to its own output, with the same arguments
AnnotateAgain ==
    /\ wpass = "done"
    /\ wrun = 1
    /\ wfirst' = wdoc
    /\ wrun' = 2
    /\ wpass' = "cells"
    /\ wi' = 0
    /\ modifiedNodes' = {}
    /\ wlog' = <<>>
    /\ UNCHANGED <<wdoc, wargs, worig, notWord>>

NextWord ==
    \/ CellStep
    \/ CellsDone
    \/ ParagraphStep
    \/ WordReturn
    \/ AnnotateAgain

SpecWord == InitWord /\ [][NextWord]_vars

\* annotateWord on the documents of LabelledRows only
InitLabelledRow == InitWord /\ wdoc \in LabelledRows
SpecLabelledRow == InitLabelledRow /\ [][NextWord]_vars


-----------------------------------------------------------------------------
(* Claims about annotateWord.                                              *)

AllKeywords == SCORE_KEYWORDS \o COMMENT_KEYWORDS \o INSTRUCTOR_KEYWORDS

\* the runs that carry a colour: those updateWordParagraph created
InjectedRunsOfPara(p) ==
    Cardinality({n \in 1..Len(p.runs) : p.runs[n].color # ""})
        + (IF p.inner = <<>> THEN 0
           ELSE Cardinality({n \in 1..Len(p.inner[1].runs) : p.inner[1].runs[n].color # ""}))
RECURSIVE SumSeq(_)
SumSeq(ns) == IF ns = <<>> THEN 0 ELSE Head(ns) + SumSeq(Tail(ns))
InjectedRunsOfParas(ps) == SumSeq([n \in 1..Len(ps) |-> InjectedRunsOfPara(ps[n])])
InjectedRunsOfCell(cell) ==
    SumSeq([n \in 1..Len(cell.nested) |-> InjectedRunsOfParas(cell.nested[n])])
        + InjectedRunsOfParas(cell.paras)
InjectedRuns(doc) ==
    SumSeq([c \in 1..Len(doc.row) |-> InjectedRunsOfCell(doc.row[c])])
        + InjectedRunsOfParas(doc.body)

\* C3: a document in which no score, comment or signature keyword occurs still
\* yields an artifact that contains the literal score value and the comment text.
C3_FallbackCompleteness ==
    (wpass = "done" /\ ~ someIncludes(AllKeywords, docText(worig))) =>
        /\ includes(docText(wdoc), DecimalString(wargs.score))
        /\ includes(docText(wdoc), wargs.teacher_comment)

\* C8: annotateWord applied to its own output, with the same arguments, returns a
\* document with the same number of injected runs and the same node contents.
C8_Idempotent ==
    (wrun = 2 /\ wpass = "done") =>
        /\ InjectedRuns(wdoc) = InjectedRuns(wfirst)
        /\ wdoc = wfirst

\* The label occurrences of a text: the pairs (keyword, position) at which a
\* keyword of a scanned category occurs.
Occurrences(text, keywords) ==
    {<<n, i>> \in (1..Len(keywords)) \X (0..Len(text)) :
        /\ i + Len(keywords[n]) <= Len(text)
        /\ SubSeq(text, i + 1, i + Len(keywords[n])) = keywords[n]}
LabelOccurrences(doc, a) ==
    Cardinality(Occurrences(docText(doc), SCORE_KEYWORDS))
      + Cardinality(Occurrences(docText(doc), COMMENT_KEYWORDS))
      + (IF InstructorEnabled(a)
         THEN Cardinality(Occurrences(docText(doc), INSTRUCTOR_KEYWORDS)) ELSE 0)

\* C9: a document with N label occurrences gets at most N calls of
\* updateWordParagraph, the cell pass and the paragraph pass counted together.
C9_AtMostNModifications ==
    (wrun = 1 /\ wpass = "done") => Len(wlog) <= LabelOccurrences(worig, wargs)

\* the text is a score keyword, or a score keyword followed by ':'
ExactScoreLabel(text) ==
    \E n \in 1..Len(SCORE_KEYWORDS) :
        text = SCORE_KEYWORDS[n] \/ text = Append(SCORE_KEYWORDS[n], ":")

\* C18: whenever the paragraph pass writes into a next sibling, the full text of
\* the paragraph it took as the label is a score keyword or that keyword followed
\* by ':'; a longer text that contains the keyword is not a label.
C18_LabelIsWholeText ==
    [][(wpass = "paragraphs" /\ Len(wlog') > Len(wlog))
          => ExactScoreLabel(NodeText(wdoc, Paragraphs(wdoc)[wi + 1]))]_vars

\* the paragraph the running iteration of the paragraph loop looks at, and its
\* next sibling paragraph
CurrentParagraph == Paragraphs(wdoc)[wi + 1]
SiblingText == paraText(ParaAt(wdoc, NextParagraph(wdoc, CurrentParagraph)))

\* an iteration of the paragraph loop on a score label whose next sibling is a
\* paragraph not yet written
LabelWithFreeSibling ==
    /\ wpass = "paragraphs"
    /\ wi < Len(Paragraphs(wdoc))
    /\ wi' = wi + 1
    /\ ExactScoreLabel(NodeText(wdoc, CurrentParagraph))
    /\ NextParagraph(wdoc, CurrentParagraph) # <<>>
    /\ Unclaimed(modifiedNodes, NextParagraph(wdoc, CurrentParagraph))

\* C19: the next sibling of a paragraph label is overwritten with the score if and
\* only if its text is shorter than 20 characters, an empty sibling included; a
\* sibling of 20 or more characters is never modified.
C19_ShortSiblingOverwritten ==
    [][LabelWithFreeSibling
          => ((Len(wlog') > Len(wlog)) <=> (Len(SiblingText) < ShortTextLimit))]_vars

\* the text a call of updateWordParagraph was given, from its entry in the log
InjectedText(e, a) ==
    CASE e.category = "score" /\ e.pass = "cells" ->
             DecimalString(a.score) \o Slash100Cell
      [] e.category = "score" /\ e.pass = "paragraphs" ->
             DecimalString(a.score) \o Slash100Para
      [] e.category = "comment" -> a.teacher_comment
      [] e.category = "instructor" -> SignText(a.instructor)

\* target.textContent
TargetText(doc, target) ==
    IF target[1] = "tc" THEN cellText(doc, target) ELSE NodeText(doc, target)

\* C20: after updateWordParagraph the target holds only the injected content: no
\* earlier text of the target remains, also when the target cell contains
\* several paragraphs.
C20_TargetHoldsOnlyInjected ==
    wlog # <<>> =>
        TargetText(wdoc, wlog[Len(wlog)].target) = InjectedText(wlog[Len(wlog)], wargs)

\* the runs of a cell without nested table, in document order
CellRuns(cell) == Flatten([n \in 1..Len(cell.paras) |-> cell.paras[n].runs])

\* C12: in a row of a score label, an empty cell, a comment label and an empty
\* cell, the cell after the score label ends with exactly one run, "87 / 100" in
\* colour FF0000, the cell after the comment label holds the teacher comment, and
\* neither cell holds the other category's content.
C12_ScoreAndCommentCells ==
    (worig \in LabelledRows /\ wrun = 1 /\ wpass = "done") =>
        /\ CellRuns(wdoc.row[2]) =
               << [text |-> <<"8", "7", " ", "/", " ", "1", "0", "0">>,
                   color |-> "FF0000", font |-> ""] >>
        /\ CellRuns(wdoc.row[4]) =
               << [text |-> wargs.teacher_comment, color |-> "FF0000", font |-> ""] >>
        /\ wdoc.row[1] = worig.row[1]
        /\ wdoc.row[3] = worig.row[3]

C12_Witness ==
    /\ worig \in LabelledRows
    /\ wrun = 1
    /\ wpass = "done"
    /\ Len(wlog) = 2
    /\ InstructorEnabled(wargs)


-----------------------------------------------------------------------------
(* annotateExcel: the scan of one sheet (part_000 lines 415-442).          *)
(*                                                                         *)
(* A cell object is [t, v]; v is text also for a numeric cell (t = "n"),   *)
(* whose text is String(cell.v).  Addresses are <<R, C>>, 0-based.         *)

MaxRows == 2    \* rows of the sheet's range
MaxCols == 2    \* columns of the sheet's range

NoCell == [t |-> "none", v |-> <<>>]
StrCell(text) == [t |-> "s", v |-> text]
NumCell(digits) == [t |-> "n", v |-> digits]

\* decode_range(sheet['!ref']): s = <<0, 0>>, e = <<MaxRows - 1, MaxCols - 1>>
RangeRows == 0..(MaxRows - 1)
RangeCols == 0..(MaxCols - 1)
\* the addresses the scan can read or write: one column beyond the range
Addresses == RangeRows \X (0..MaxCols)

\* cell && cell.v
HasValue(cell) ==
    /\ cell # NoCell
    /\ cell.v # <<>>
    /\ ~ (cell.t = "n" /\ cell.v = <<"0">>)

\* writeToNextCell that sets the value and leaves the type of an existing cell
writeToNextCellKeepType(sh, log, R, C, category, text) ==
    [sheet |-> [sh EXCEPT ![<<R, C + 1>>] =
                   [t |-> IF @ = NoCell THEN "s" ELSE @.t, v |-> text]],
     log |-> Append(log, [target |-> <<R, C + 1>>, category |-> category,
                          label |-> <<R, C>>])]

\* writeToNextCell(text), lines 426-432, with the category as history
writeToNextCell(sh, log, R, C, category, text) ==
    [sheet |-> [sh EXCEPT ![<<R, C + 1>>] = [t |-> "s", v |-> text]],
     log |-> Append(log, [target |-> <<R, C + 1>>, category |-> category,
                          label |-> <<R, C>>])]

\* The body of the two loops for one address, lines 421-439
ScanCell(sh, log, R, C, a) ==
    LET cell == sh[<<R, C>>]
        val  == cell.v
        s0 == [sheet |-> sh, log |-> log]
        s1 == IF someIncludes(SCORE_KEYWORDS, val)
              THEN writeToNextCell(s0.sheet, s0.log, R, C, "score",
                                   DecimalString(a.score) \o Slash100Para)
              ELSE s0
        s2 == IF someIncludes(COMMENT_KEYWORDS, val)
              THEN writeToNextCell(s1.sheet, s1.log, R, C, "comment", a.teacher_comment)
              ELSE s1
        s3 == IF InstructorEnabled(a) /\ someIncludes(INSTRUCTOR_KEYWORDS, val)
              THEN writeToNextCell(s2.sheet, s2.log, R, C, "instructor",
                                   SignText(a.instructor))
              ELSE s2
    IN  IF HasValue(cell) THEN s3 ELSE s0

TxtX == <<"x">>
XlsCellChoices ==
    { NoCell, StrCell(<<>>), StrCell(KwPingFen), StrCell(KwTeacherComments),
      StrCell(TxtX), NumCell(<<"0">>) }

XlsArgChoices ==
    [score : {87},
     teacher_comment : {TxtOk, TxtJianYi, TxtGradeA},
     instructor : InstructorChoices]

InitXls ==
    /\ PipeOff
    /\ WordOff
    /\ PdfOff
    /\ LayoutOff
    /\ DrawOff
    /\ sheet \in {sh \in [Addresses -> XlsCellChoices] :
                     \A R \in RangeRows : sh[<<R, MaxCols>>] = NoCell}
    /\ xargs \in XlsArgChoices
    /\ xpass = "scan"
    /\ xR = 0
    /\ xC = 0
    /\ xlog = <<>>
    /\ xorig = sheet

\* one turn of the inner loop: for (C = range.s.c; C <= range.e.c; ++C)
XlsCellStep ==
    /\ xpass = "scan"
    /\ xR \in RangeRows
    /\ xC \in RangeCols
    /\ LET st == ScanCell(sheet, xlog, xR, xC, xargs)
       IN  /\ sheet' = st.sheet
           /\ xlog' = st.log
    /\ xC' = xC + 1
    /\ UNCHANGED <<xargs, xpass, xR, xorig, notXls>>

\* the inner loop ends: ++R and C starts again at range.s.c
XlsNextRow ==
    /\ xpass = "scan"
    /\ xR \in RangeRows
    /\ xC = MaxCols
    /\ xR' = xR + 1
    /\ xC' = 0
    /\ UNCHANGED <<sheet, xargs, xpass, xlog, xorig, notXls>>

\* the outer loop ends; lines 443-444 write the workbook and resolve
XlsReturn ==
    /\ xpass = "scan"
    /\ xR = MaxRows
    /\ xpass' = "done"
    /\ UNCHANGED <<sheet, xargs, xR, xC, xlog, xorig, notXls>>

NextXls ==
    \/ XlsCellStep
    \/ XlsNextRow
    \/ XlsReturn

SpecXls == InitXls /\ [][NextXls]_vars

\* the scan of the sheets whose cells lie in two adjacent columns of one row
PairSheet(R, C, left, right) ==
    [addr \in Addresses |->
        IF addr = <<R, C>> THEN left
        ELSE IF addr = <<R, C + 1>> /\ C + 1 < MaxCols THEN right
        ELSE NoCell]

InitXlsPair ==
    /\ PipeOff
    /\ WordOff
    /\ PdfOff
    /\ LayoutOff
    /\ DrawOff
    /\ sheet \in {PairSheet(R, C, left, right) :
                     R \in RangeRows, C \in RangeCols,
                     left \in XlsCellChoices, right \in XlsCellChoices}
    /\ xargs \in XlsArgChoices
    /\ xpass = "scan"
    /\ xR = 0
    /\ xC = 0
    /\ xlog = <<>>
    /\ xorig = sheet
SpecXlsPair == InitXlsPair /\ [][NextXls]_vars

-----------------------------------------------------------------------------
(* Claims about the targets of annotateWord and annotateExcel.             *)

\* C7: within one invocation each target (the cell or node next to a label) is
\* written by at most one category: two calls of updateWordParagraph, or two
\* calls of writeToNextCell, that write the same target are of the same category.
C7_TargetWrittenOnce ==
    /\ \A m, n \in 1..Len(wlog) :
          wlog[m].target = wlog[n].target => wlog[m].category = wlog[n].category
    /\ \A m, n \in 1..Len(xlog) :
          xlog[m].target = xlog[n].target => xlog[m].category = xlog[n].category


-----------------------------------------------------------------------------
(* annotatePdf: the keyword scan (part_000 lines 470-558).                 *)
(*                                                                         *)
(* A text item is [str, x, y, charW, h]: transform[4], transform[5], the   *)
(* width of one character (item.width = charW * str.length, so that        *)
(* w / str.length is exact) and item.height.                               *)

\* isOverlapping with the extent of r1 left out of the first and third test.
isOverlappingNoExtent(r1, r2) ==
    ~ ( \/ r2.x > r1.x
        \/ r2.x + r2.width < r1.x
        \/ r2.y > r1.y
        \/ r2.y + r2.height < r1.y )

\* isOverlapping(r1, r2), lines 470-476
isOverlapping(r1, r2) ==
    ~ ( \/ r2.x > r1.x + r1.width
        \/ r2.x + r2.width < r1.x
        \/ r2.y > r1.y + r1.height
        \/ r2.y + r2.height < r1.y )

\* lines 486-505: the characters of one item
ItemChars(item) ==
    [c \in 1..Len(item.str) |->
        [char |-> item.str[c], x |-> item.x + ((c - 1) * item.charW), y |-> item.y,
         w |-> item.charW, h |-> item.h]]

\* charMap of a page
CharMap(items) == Flatten([n \in 1..Len(items) |-> ItemChars(items[n])])

\* fullPageStr = charMap.map(c => c.char).join('')
FullPageStr(items) == Flatten([n \in 1..Len(items) |-> items[n].str])

SetMin(S) == CHOOSE v \in S : \A u \in S : v <= u
SetMax(S) == CHOOSE v \in S : \A u \in S : v >= u

\* lines 518-539: the candidate for the occurrence of keyword at idx on page i.
\* keyword and index are history; the code keeps page, x, y, width, height,
\* isVertical and type.
Candidate(items, i, keyword, idx, type) ==
    LET cm == CharMap(items)
        foundChars == SubSeq(cm, idx + 1, Min(idx + Len(keyword), Len(cm)))
        ns   == 1..Len(foundChars)
        minX == SetMin({foundChars[n].x : n \in ns})
        maxX == SetMax({foundChars[n].x + foundChars[n].w : n \in ns})
        minY == SetMin({foundChars[n].y : n \in ns})
        maxY == SetMax({foundChars[n].y + foundChars[n].h : n \in ns})
    IN  [page |-> i - 1, x |-> minX, y |-> minY,
         width |-> maxX - minX, height |-> maxY - minY,
         isVertical |-> (10 * (maxY - minY)) > (12 * (maxX - minX)),
         type |-> type, keyword |-> keyword, index |-> idx]

\* the overlap test made against the locations of every page
AddIfFreeOnAnyPage(locs, candidateLoc) ==
    IF \E n \in 1..Len(locs) : isOverlapping(locs[n], candidateLoc)
    THEN locs
    ELSE Append(locs, candidateLoc)

\* lines 544-548
AddIfFree(locs, candidateLoc) ==
    IF \E n \in 1..Len(locs) :
          locs[n].page = candidateLoc.page /\ isOverlapping(locs[n], candidateLoc)
    THEN locs
    ELSE Append(locs, candidateLoc)

KeywordsOf(type) ==
    CASE type = "score"      -> SCORE_KEYWORDS
      [] type = "comment"    -> COMMENT_KEYWORDS
      [] type = "instructor" -> INSTRUCTOR_KEYWORDS

\* ---- the inputs explored ----

MaxItems == 2   \* text items on the first page

TxtScoreGrade == <<"S", "c", "o", "r", "e", "G", "r", "a", "d", "e">>
KwQianMing == <<"qian", "ming">>

Item(str, x, y, charW, h) == [str |-> str, x |-> x, y |-> y, charW |-> charW, h |-> h]

\* items on one line (abutting at x = 10), on two lines whose boxes touch
\* (y = 100 and y = 112, height 12), overlaid, and one of width 0
ItemChoices ==
    { Item(str, pos[1], pos[2], 2, 12) :
        str \in {KwTeacherComments, TxtScore, KwQianMing},
        pos \in {<<0, 100>>, <<10, 100>>, <<0, 112>>} }
      \cup { Item(TxtScoreGrade, 0, 100, 2, 12),
             Item(TxtAb, 0, 100, 2, 12),
             Item(TxtScore, 0, 106, 0, 12) }

LaterPageChoices ==
    { << Item(TxtScore, 0, 100, 2, 12) >>,
      << Item(KwTeacherComments, 0, 100, 2, 12), Item(TxtScore, 40, 100, 2, 12) >>,
      << Item(TxtScore, 0, 100, 2, 12), Item(TxtScore, 40, 100, 2, 12) >> }

PdfChoices ==
    {<<p1>> : p1 \in SeqsUpTo(ItemChoices, MaxItems)}
      \cup {<<p1, p2>> : p1 \in SeqsUpTo(ItemChoices, MaxItems), p2 \in LaterPageChoices}

\* the scan reads only whether an instructor argument was given
PdfInstructorChoices ==
    { NoInstructor,
      [given |-> TRUE, enabled |-> TRUE, name |-> <<>>, fontStyle |-> "standard"] }

InitPdf ==
    /\ PipeOff
    /\ WordOff
    /\ XlsOff
    /\ LayoutOff
    /\ DrawOff
    /\ pdfPages \in PdfChoices
    /\ pinstr \in PdfInstructorChoices
    /\ ppass = "scan"
    /\ pPage = 1
    /\ pcat = "score"
    /\ pkw = 1
    /\ startIndex = 0
    /\ locations = <<>>

Scanning == ppass = "scan" /\ pPage <= Len(pdfPages) /\ pkw <= Len(KeywordsOf(pcat))
CurrentIdx ==
    indexOf(FullPageStr(pdfPages[pPage]), KeywordsOf(pcat)[pkw], startIndex)

\* lines 514-550: one turn of the while loop that finds an occurrence
FindOccurrence ==
    /\ Scanning
    /\ CurrentIdx # -1
    /\ locations' = AddIfFree(locations,
                       Candidate(pdfPages[pPage], pPage, KeywordsOf(pcat)[pkw],
                                 CurrentIdx, pcat))
    /\ startIndex' = CurrentIdx + 1
    /\ UNCHANGED <<pdfPages, pinstr, ppass, pPage, pcat, pkw, notPdf>>

\* line 515: if (idx === -1) break; forEach goes on to the next keyword
KeywordExhausted ==
    /\ Scanning
    /\ CurrentIdx = -1
    /\ pkw' = pkw + 1
    /\ startIndex' = 0
    /\ UNCHANGED <<pdfPages, pinstr, ppass, pPage, pcat, locations, notPdf>>

\* lines 555-557: findAndAdd returns and the next category is scanned;
\* the instructor keywords only if (instructor)
NextCategory ==
    /\ ppass = "scan"
    /\ pPage <= Len(pdfPages)
    /\ pkw > Len(KeywordsOf(pcat))
    /\ \/ pcat = "score" /\ pcat' = "comment"
       \/ pcat = "comment" /\ pinstr.given /\ pcat' = "instructor"
    /\ pkw' = 1
    /\ startIndex' = 0
    /\ UNCHANGED <<pdfPages, pinstr, ppass, pPage, locations, notPdf>>

\* line 479: the last findAndAdd of the page returns and i++
NextPage ==
    /\ ppass = "scan"
    /\ pPage <= Len(pdfPages)
    /\ pkw > Len(KeywordsOf(pcat))
    /\ \/ pcat = "instructor"
       \/ pcat = "comment" /\ ~ pinstr.given
    /\ pPage' = pPage + 1
    /\ pcat' = "score"
    /\ pkw' = 1
    /\ startIndex' = 0
    /\ UNCHANGED <<pdfPages, pinstr, ppass, locations, notPdf>>

\* the loop over the pages ends
ScanDone ==
    /\ ppass = "scan"
    /\ pPage > Len(pdfPages)
    /\ ppass' = "located"
    /\ UNCHANGED <<pdfPages, pinstr, pPage, pcat, pkw, startIndex, locations, notPdf>>

NextPdf ==
    \/ FindOccurrence
    \/ KeywordExhausted
    \/ NextCategory
    \/ NextPage
    \/ ScanDone

SpecPdf == InitPdf /\ [][NextPdf]_vars


-----------------------------------------------------------------------------
(* annotatePdf: the layout of one comment region, and createTextImage.     *)
(*                                                                         *)
(* Lengths are integers counting tenths: of a PDF point for the page, the  *)
(* region and the draw box, of a CSS pixel for measured text.  So          *)
(* margin = 50 is 500, fontSize * 1.4 = 25.2 is 252, and a canvas of w     *)
(* whole pixels drawn at scale 0.5 is w * 5 tenths of a point wide.        *)
(* A character of the comment is represented by its advance width in the   *)
(* 18px font; measureText adds the advances of a line.                     *)

\* Math.ceil(n / d), d > 0
CeilDiv(n, d) == -((-n) \div d)

measureText(line) == SumSeq(line)

\* the loop of createTextImage over characters; i is the loop variable
RECURSIVE BreakLines(_, _, _, _, _)
BreakLines(characters, i, currentLine, lines, maxWidth) ==
    IF i >= Len(characters)
    THEN Append(lines, currentLine)
    ELSE LET char == characters[i + 1]
             testLine == Append(currentLine, char)
         IN  IF measureText(testLine) > maxWidth /\ i > 0
             THEN BreakLines(characters, i + 1, <<char>>,
                             Append(lines, currentLine), maxWidth)
             ELSE BreakLines(characters, i + 1, testLine, lines, maxWidth)

NoImage == <<>>

\* width and height are whole pixels; lines is kept for the history
createTextImage(text, maxWidth, fontSize, isMultiLine, ctx) ==
    IF text = <<>> THEN NoImage
    ELSE IF ~ ctx THEN NoImage
    ELSE LET lines == IF isMultiLine
                      THEN BreakLines(text, 0, <<>>, <<>>, maxWidth)
                      ELSE <<text>>
             maxLineWidth ==
                 SetMax({0} \cup {measureText(lines[n]) : n \in 1..Len(lines)})
             lineHeight == fontSize * 14
         IN  [width |-> CeilDiv(maxLineWidth + 100, 10),
              height |-> CeilDiv(Len(lines) * lineHeight, 10),
              lines |-> lines]

\* the comment branch without its overflow test
PlanCommentNoOverflow(loc, pageW) ==
    [drawX |-> loc.x + loc.width + 500,
     targetTopY |-> IF loc.isVertical THEN loc.y + loc.height ELSE loc.y + 100,
     finalWidth |-> 3500,
     moveDown |-> FALSE]

\* drawX, targetTopY, finalWidth and moveDown as the comment branch sets them
PlanComment(loc, pageW) ==
    LET margin == 500
        targetWidth == 3500
        drawX == loc.x + loc.width + margin
        targetTopY == IF loc.isVertical THEN loc.y + loc.height ELSE loc.y + 100
    IN  IF drawX + targetWidth > pageW - 200
        THEN [drawX |-> 400, targetTopY |-> targetTopY,
              finalWidth |-> pageW - 800, moveDown |-> TRUE]
        ELSE [drawX |-> drawX, targetTopY |-> targetTopY,
              finalWidth |-> targetWidth, moveDown |-> FALSE]

\* the argument of page.drawImage; yBeforeClamp is history
DrawBox(loc, plan, img) ==
    LET finalImageW == img.width * 5
        finalImageH == img.height * 5
        drawY == IF plan.moveDown
                 THEN loc.y - 150 - finalImageH
                 ELSE plan.targetTopY - finalImageH
    IN  [x |-> plan.drawX,
         y |-> IF drawY < 300 THEN 300 ELSE drawY,
         width |-> finalImageW,
         height |-> finalImageH,
         yBeforeClamp |-> drawY]

Repeat(n, w) == [k \in 1..n |-> w]

\* "No comments generated.": 22 Latin characters
NoCommentsGenerated == Repeat(22, 97)

\* result.teacher_comment || "No comments generated."
CommentOrDefault(comment) == IF comment = <<>> THEN NoCommentsGenerated ELSE comment

MaxChars == 40

PageWidths == {500, 2000, 4200, 5953, 6120}

Region(x, y, w, h) ==
    [x |-> x, y |-> y, width |-> w, height |-> h, isVertical |-> 10 * h > 12 * w]

RegionChoices ==
    {Region(x, y, w, h) : x \in {0, 720, 1500, 4000}, y \in {200, 4000},
                          w \in {120, 500}, h \in {120, 700}}

TextChoices ==
    {Repeat(n, w) : n \in {0, 1, 13, 14, 39, MaxChars}, w \in {97, 180}}

InitLayout ==
    /\ PipeOff
    /\ WordOff
    /\ XlsOff
    /\ PdfOff
    /\ DrawOff
    /\ lpage \in [width : PageWidths, comment : TextChoices]
    /\ lloc \in {r \in RegionChoices : r.x + r.width <= lpage.width}
    /\ lctx \in BOOLEAN
    /\ lpc = "plan"
    /\ lplan = <<>>
    /\ limg = NoImage
    /\ ldraw = <<>>

LayoutPlan ==
    /\ lpc = "plan"
    /\ lplan' = PlanComment(lloc, lpage.width)
    /\ lpc' = "render"
    /\ UNCHANGED <<lloc, lpage, lctx, limg, ldraw, notLayout>>

LayoutRender ==
    /\ lpc = "render"
    /\ limg' = createTextImage(CommentOrDefault(lpage.comment),
                               lplan.finalWidth * 2, 18, TRUE, lctx)
    /\ lpc' = "draw"
    /\ UNCHANGED <<lloc, lpage, lctx, lplan, ldraw, notLayout>>

LayoutDraw ==
    /\ lpc = "draw"
    /\ limg # NoImage
    /\ ldraw' = DrawBox(lloc, lplan, limg)
    /\ lpc' = "drawn"
    /\ UNCHANGED <<lloc, lpage, lctx, lplan, limg, notLayout>>

LayoutSkip ==
    /\ lpc = "draw"
    /\ limg = NoImage
    /\ lpc' = "skipped"
    /\ UNCHANGED <<lloc, lpage, lctx, lplan, limg, ldraw, notLayout>>

NextLayout ==
    \/ LayoutPlan
    \/ LayoutRender
    \/ LayoutDraw
    \/ LayoutSkip

SpecLayout == InitLayout /\ [][NextLayout]_vars

\* every wrapped line measures at most the maxWidth given to createTextImage
LinesFit ==
    \A n \in 1..Len(limg.lines) : measureText(limg.lines[n]) <= lplan.finalWidth * 2

Overflows == lloc.x + lloc.width + 500 + 3500 > lpage.width - 200

\* C10: for a page at least 200 points wide and wrapped lines within maxWidth,
\* the drawn comment box ends at or before the right page edge; when
\* label.x + label.width + 50 + 350 exceeds page width - 20, the box starts at
\* x = 40, has the width budget page width - 80, and its y before clamping is
\* label.y - 15 - image height.
C10_OverflowRelocation ==
    (lpc = "drawn" /\ lpage.width >= 2000 /\ LinesFit) =>
        /\ ldraw.x + ldraw.width <= lpage.width
        /\ Overflows =>
              /\ ldraw.x = 400
              /\ lplan.finalWidth = lpage.width - 800
              /\ ldraw.yBeforeClamp = lloc.y - 150 - ldraw.height

\* a relocated comment whose text was wrapped to the full width budget
C10_Witness ==
    /\ lpc = "drawn"
    /\ lpage.width >= 2000
    /\ LinesFit
    /\ Overflows
    /\ Len(limg.lines) > 1
    /\ ldraw.x + ldraw.width > lpage.width - 800

-----------------------------------------------------------------------------
(* Claims about the keyword scan of annotatePdf.                           *)

\* Two closed axis-aligned boxes share a point.
BoxesIntersect(a, b) ==
    /\ Max(a.x, b.x) <= Min(a.x + a.width, b.x + b.width)
    /\ Max(a.y, b.y) <= Min(a.y + a.height, b.y + b.height)

\* C5: after every step of the scan, two distinct entries of locations with the
\* same page index have boxes that do not intersect.
C5_NoOverlap ==
    \A m, n \in 1..Len(locations) :
        (m # n /\ locations[m].page = locations[n].page)
            => ~ BoxesIntersect(locations[m], locations[n])

\* the occurrence of keyword at idx on page i (numbered from 1) was accepted
Accepted(i, keyword, idx) ==
    \E n \in 1..Len(locations) :
        /\ locations[n].page = i - 1
        /\ locations[n].keyword = keyword
        /\ locations[n].index = idx

OccursAt(text, keyword, idx) ==
    /\ idx + Len(keyword) <= Len(text)
    /\ SubSeq(text, idx + 1, idx + Len(keyword)) = keyword

\* two regions share a page, and a candidate of that page was discarded
C5_Witness ==
    /\ ppass = "located"
    /\ \E m, n \in 1..Len(locations) : m # n /\ locations[m].page = locations[n].page
    /\ \E i \in 1..Len(pdfPages) : \E idx \in 0..Len(FullPageStr(pdfPages[i])) :
          /\ OccursAt(FullPageStr(pdfPages[i]), TxtScore, idx)
          /\ ~ Accepted(i, TxtScore, idx)

\* the union box of the characters idx .. idx + len - 1 of a page
SpanBox(items, idx, len) ==
    LET cm == CharMap(items)
        ns == (idx + 1)..(idx + len)
        x0 == SetMin({cm[n].x : n \in ns})
        y0 == SetMin({cm[n].y : n \in ns})
    IN  [x |-> x0, y |-> y0,
         width |-> SetMax({cm[n].x + cm[n].w : n \in ns}) - x0,
         height |-> SetMax({cm[n].y + cm[n].h : n \in ns}) - y0]

\* the regions accepted for keyword occurrences that lie inside the span
RegionsInSpan(i, idx, len) ==
    {n \in 1..Len(locations) :
        /\ locations[n].page = i - 1
        /\ idx <= locations[n].index
        /\ locations[n].index + Len(locations[n].keyword) <= idx + len}

\* exactly one region for the span, of category comment, bound to the whole
\* phrase, with the union box of its 16 characters
PhraseWins(i, idx) ==
    \E n \in 1..Len(locations) :
        /\ RegionsInSpan(i, idx, Len(KwTeacherComments)) = {n}
        /\ locations[n].type = "comment"
        /\ locations[n].keyword = KwTeacherComments
        /\ locations[n].index = idx
        /\ LET box == SpanBox(pdfPages[i], idx, Len(KwTeacherComments))
           IN  /\ locations[n].x = box.x
               /\ locations[n].y = box.y
               /\ locations[n].width = box.width
               /\ locations[n].height = box.height

PhraseOccurrences ==
    UNION {{<<i, idx>> : idx \in {k \in 0..Len(FullPageStr(pdfPages[i])) :
                              OccursAt(FullPageStr(pdfPages[i]), KwTeacherComments, k)}}
           : i \in 1..Len(pdfPages)}

\* C6: whatever else is on the page, every occurrence of "Teacher
\* Comments" yields exactly one region, of category comment, with the union box of
\* the phrase, and none for the "Comments" or the "Teacher" it contains.
C6_PhraseAlwaysWins ==
    ppass = "located" => \A o \in PhraseOccurrences : PhraseWins(o[1], o[2])

\* the categories findAndAdd is called for (lines 555-557)
ScannedCategories ==
    IF pinstr.given THEN {"score", "comment", "instructor"} ELSE {"score", "comment"}

\* the occurrence of keyword at idx on page i was added to locations, or a
\* location of the same page intersects its box
AddedOrCovered(i, keyword, idx, type) ==
    LET cand == Candidate(pdfPages[i], i, keyword, idx, type)
    IN  \/ \E n \in 1..Len(locations) : locations[n] = cand
        \/ \E n \in 1..Len(locations) :
              locations[n].page = i - 1 /\ BoxesIntersect(locations[n], cand)

\* C17: for every page, every category scanned and every index at which a keyword
\* occurs in the page's character string, second and later occurrences included,
\* the occurrence is in locations or its box intersects a location of the same
\* page; a location of another page never causes a discard.
C17_EveryOccurrenceConsidered ==
    ppass = "located" =>
        \A i \in 1..Len(pdfPages) : \A type \in ScannedCategories :
            \A k \in 1..Len(KeywordsOf(type)) :
                \A idx \in 0..Len(FullPageStr(pdfPages[i])) :
                    OccursAt(FullPageStr(pdfPages[i]), KeywordsOf(type)[k], idx)
                        => AddedOrCovered(i, KeywordsOf(type)[k], idx, type)

\* two occurrences of one keyword on the second page are both accepted, at the
\* place where the first page has a region too
C17_Witness ==
    /\ ppass = "located"
    /\ Len(pdfPages) = 2
    /\ \E a, b \in 0..Len(FullPageStr(pdfPages[2])) :
          /\ a < b
          /\ Accepted(2, TxtScore, a)
          /\ Accepted(2, TxtScore, b)
    /\ \E m, n \in 1..Len(locations) :
          /\ locations[m].page = 0
          /\ locations[n].page = 1
          /\ BoxesIntersect(locations[m], locations[n])

-----------------------------------------------------------------------------
(* annotatePdf after the scan: the images are embedded and the loop over    *)
(* locations draws them (part_000 lines 560-712).  The machine runs inside  *)
(* a call of getAnnotatedFileBlob on a PDF file: an exception that leaves   *)
(* annotatePdf reaches the catch clause of the pipeline.  Lengths are in    *)
(* tenths, as in the layout of the comment.                                 *)

\* the advances of a text in a font of the given size: digits and Latin letters
\* about 0.55 em, modelled on the 18px widths 97 and 180 of the comment font
Advances(text, fontSize) == Repeat(Len(text), fontSize * 5)

\* createSignatureImage(text, isArtistic): fontSize 48, one line
createSignatureImage(text, ctx) ==
    createTextImage(Advances(text, 48), 8000, 48, FALSE, ctx)

\* the pixel size of an uploaded signature image
ImageSize(imageData) == [width |-> 400, height |-> 200, lines |-> <<>>]

\* lines 586-595: the score image is anchored to the right of the label
ScoreBox(loc, scoreImgData) ==
    [x |-> loc.x + loc.width + 500,
     y |-> loc.y,
     width |-> scoreImgData.width * 5,
     height |-> scoreImgData.height * 5]

\* lines 663-677: signatureImage.scale(0.5), capped at maxWidth = 150
SignatureBox(loc, signatureImage) ==
    LET dims == [width |-> signatureImage.width * 5, height |-> signatureImage.height * 5]
        w == IF dims.width > 1500 THEN 1500 ELSE dims.width
        h == IF dims.width > 1500
             THEN (1500 * dims.height) \div dims.width
             ELSE dims.height
    IN  [x |-> loc.x + loc.width + 200, y |-> loc.y - 50, width |-> w, height |-> h]

\* lines 598-659 for one comment region: the box, or NoImage when
\* createTextImage returns null
CommentBox(loc, pageW, comment, ctx) ==
    LET plan == PlanComment(loc, pageW)
        img  == createTextImage(CommentOrDefault(comment), plan.finalWidth * 2,
                                18, TRUE, ctx)
    IN  IF img = NoImage THEN NoImage
        ELSE LET box == DrawBox(loc, plan, img)
             IN  [x |-> box.x, y |-> box.y, width |-> box.width, height |-> box.height]

MaxRegions == 2

Located(type, x, y, w, h) ==
    [type |-> type, page |-> 0, x |-> x, y |-> y, width |-> w, height |-> h,
     isVertical |-> 10 * h > 12 * w]

\* labels in the middle of the page, near its right edge and near its bottom
LocatedChoices ==
    { Located("score", 1000, 7000, 500, 120),
      Located("score", 5200, 7000, 500, 120),
      Located("comment", 1000, 6000, 640, 120),
      Located("comment", 4800, 300, 640, 120),
      Located("instructor", 1000, 1000, 400, 120),
      Located("instructor", 1000, 20, 400, 120) }

PageSizes == { [width |-> 5953, height |-> 8419], [width |-> 6120, height |-> 7920] }

DrawInstructorChoices ==
    { [given |-> FALSE, enabled |-> FALSE, mode |-> "text", name |-> <<>>,
       fontStyle |-> "standard", imageData |-> ""],
      [given |-> TRUE, enabled |-> FALSE, mode |-> "text", name |-> TxtLi,
       fontStyle |-> "standard", imageData |-> ""],
      [given |-> TRUE, enabled |-> TRUE, mode |-> "text", name |-> TxtLi,
       fontStyle |-> "artistic", imageData |-> ""],
      [given |-> TRUE, enabled |-> TRUE, mode |-> "image", name |-> <<>>,
       fontStyle |-> "standard", imageData |-> "data:image/png"] }

EmbedSites == {"signature", "score", "comment"}

InitDraw ==
    /\ file = [type |-> PDF, name |-> <<"a", ".", "p", "d", "f">>]
    /\ libs \in {l \in Libs : l.pdfjsLib /\ l.PDFLib /\ l.JSZip /\ l.XLSX}
    /\ pc = "pdf_draw"
    /\ reader = "idle"
    /\ caught = ""
    /\ outcome = Pending
    /\ WordOff
    /\ XlsOff
    /\ PdfOff
    /\ LayoutOff
    /\ dlocs \in SeqsUpTo(LocatedChoices, MaxRegions)
    /\ dpage \in PageSizes
    /\ dargs \in [score : {42}, teacher_comment : {<<>>, Repeat(MaxChars, 180)},
                  instructor : DrawInstructorChoices, ctx : BOOLEAN]
    /\ dfails \in SUBSET EmbedSites
    /\ dassets = <<>>
    /\ dk = 0
    /\ drawn = <<>>
    /\ dphase = "assets"
    /\ rargs = <<>>
    /\ CallsOff
    /\ LaterOff

\* an exception leaves annotatePdf: the await at line 249 throws into the catch
DrawThrow(e) ==
    /\ pc' = "catch"
    /\ caught' = e
    /\ dphase' = "left"
    /\ UNCHANGED <<file, libs, reader, outcome, dlocs, dpage, dargs, dfails, dassets,
                   dk, drawn, notDraw>>

\* lines 565-576: signatureImage.  The embed of an uploaded image is inside a
\* try (a failure leaves null); the embed of the generated image is not.
SignatureAsset(instructor, ctx, fails) ==
    IF ~ (instructor.given /\ instructor.enabled) THEN NoImage
    ELSE IF instructor.mode = "image" /\ instructor.imageData # ""
         THEN IF "signature" \in fails THEN NoImage
              ELSE ImageSize(instructor.imageData)
    ELSE IF instructor.mode = "text" /\ instructor.name # <<>>
         THEN createSignatureImage(instructor.name, ctx)
    ELSE NoImage

\* line 574: embedPng(genDataUrl) raises
SignatureEmbedRaises(instructor, ctx, fails) ==
    /\ instructor.given /\ instructor.enabled
    /\ ~ (instructor.mode = "image" /\ instructor.imageData # "")
    /\ instructor.mode = "text" /\ instructor.name # <<>>
    /\ createSignatureImage(instructor.name, ctx) # NoImage
    /\ "signature" \in fails

\* line 578: scoreImgData
ScoreAsset(score, ctx) ==
    createTextImage(Advances(DecimalString(score), 36), 8000, 36, FALSE, ctx)

\* lines 564-579
DrawEmbedAssets ==
    /\ dphase = "assets"
    /\ LET sig == SignatureAsset(dargs.instructor, dargs.ctx, dfails)
           scoreImgData == ScoreAsset(dargs.score, dargs.ctx)
       IN  IF SignatureEmbedRaises(dargs.instructor, dargs.ctx, dfails)
           THEN DrawThrow("embedPng failed")
           ELSE IF scoreImgData # NoImage /\ "score" \in dfails
           THEN DrawThrow("embedPng failed")
           ELSE /\ dassets' = [signatureImage |-> sig, scoreImgData |-> scoreImgData]
                /\ dphase' = "loop"
                /\ dk' = 1
                /\ UNCHANGED <<pipeVars, dlocs, dpage, dargs, dfails, drawn, notDraw>>

Drawn(type, k, box) == [type |-> type, region |-> k, box |-> box]

\* lines 582-679: one iteration of the loop over locations
DrawRegion ==
    /\ dphase = "loop"
    /\ dk <= Len(dlocs)
    /\ LET loc == dlocs[dk]
           skip == /\ dk' = dk + 1
                   /\ UNCHANGED <<pipeVars, dlocs, dpage, dargs, dfails, dassets,
                                  drawn, dphase, notDraw>>
           draw(box) == /\ drawn' = Append(drawn, Drawn(loc.type, dk, box))
                        /\ dk' = dk + 1
                        /\ UNCHANGED <<pipeVars, dlocs, dpage, dargs, dfails, dassets,
                                       dphase, notDraw>>
       IN  IF loc.type = "score" /\ dassets.scoreImgData # NoImage
           THEN draw(ScoreBox(loc, dassets.scoreImgData))
           ELSE IF loc.type = "comment"
           THEN LET box == CommentBox(loc, dpage.width, dargs.teacher_comment, dargs.ctx)
                IN  IF box = NoImage THEN skip
                    ELSE IF "comment" \in dfails THEN DrawThrow("embedPng failed")
                    ELSE draw(box)
           ELSE IF /\ loc.type = "instructor"
                   /\ dargs.instructor.given
                   /\ dargs.instructor.enabled
                   /\ dassets.signatureImage # NoImage
           THEN draw(SignatureBox(loc, dassets.signatureImage))
           ELSE skip

\* line 679 to 682: the loop is over
DrawLoopEnd ==
    /\ dphase = "loop"
    /\ dk > Len(dlocs)
    /\ dphase' = IF Len(dlocs) = 0 THEN "fallback" ELSE "save"
    /\ UNCHANGED <<pipeVars, dlocs, dpage, dargs, dfails, dassets, dk, drawn, notDraw>>

\* createTextImage(result.teacher_comment || "No comments.", maxWidth 1000)
FallbackCommentImage(comment, ctx) ==
    createTextImage(IF comment = <<>> THEN Repeat(12, 97) ELSE comment,
                    10000, 18, TRUE, ctx)

\* lines 682-708: no location was found, a report page is added
DrawFallbackPage ==
    /\ dphase = "fallback"
    /\ LET scoreDraw ==
               IF dassets.scoreImgData # NoImage
               THEN << Drawn("score", 0,
                         [x |-> 1000, y |-> 6500,
                          width |-> dassets.scoreImgData.width * 5,
                          height |-> dassets.scoreImgData.height * 5]) >>
               ELSE <<>>
           img == FallbackCommentImage(dargs.teacher_comment, dargs.ctx)
           commentDraw ==
               IF img # NoImage
               THEN << Drawn("comment", 0,
                         [x |-> 500, y |-> 5800 - img.height * 5,
                          width |-> img.width * 5, height |-> img.height * 5]) >>
               ELSE <<>>
           sigDraw ==
               IF /\ dargs.instructor.given
                  /\ dargs.instructor.enabled
                  /\ dassets.signatureImage # NoImage
               THEN << Drawn("instructor", 0,
                         [x |-> 1200, y |-> 3900, width |-> 1000, height |-> 500]) >>
               ELSE <<>>
       IN  IF img # NoImage /\ "comment" \in dfails
           THEN DrawThrow("embedPng failed")
           ELSE /\ drawn' = drawn \o scoreDraw \o commentDraw \o sigDraw
                /\ dphase' = "save"
                /\ UNCHANGED <<pipeVars, dlocs, dpage, dargs, dfails, dassets, dk,
                               notDraw>>

\* lines 710-711 and 250-255: the annotated document is returned
DrawSave ==
    /\ dphase = "save"
    /\ pc' = "done"
    /\ outcome' = Resolved("pdf", "pdf")
    /\ dphase' = "left"
    /\ UNCHANGED <<file, libs, reader, caught, dlocs, dpage, dargs, dfails, dassets,
                   dk, drawn, notDraw>>

\* lines 256-260, in a call whose annotator was annotatePdf
DrawCatch ==
    /\ pc = "catch"
    /\ dphase = "left"
    /\ pc' = "done"
    /\ outcome' = CatchClause(libs, caught)
    /\ UNCHANGED <<file, libs, reader, caught, drawVars, notDraw>>

NextDraw ==
    \/ DrawEmbedAssets
    \/ DrawRegion
    \/ DrawLoopEnd
    \/ DrawFallbackPage
    \/ DrawSave
    \/ DrawCatch

SpecDraw == InitDraw /\ [][NextDraw]_vars


-----------------------------------------------------------------------------
(* Claims about the draw phase of annotatePdf.                             *)

InsidePage(box, page) ==
    /\ 0 <= box.x
    /\ box.x + box.width <= page.width
    /\ 0 <= box.y
    /\ box.y + box.height <= page.height

\* C11: every box drawn for a located region, of any category and at any label
\* position, lies inside the page on both axes.
C11_DrawnInsidePage ==
    \A n \in 1..Len(drawn) : drawn[n].region > 0 => InsidePage(drawn[n].box, dpage)

\* the call has settled after annotatePdf raised
RaisedAndSettled == pc = "done" /\ caught = "embedPng failed"

\* C13: when a later region's mutation raises after an earlier region was drawn,
\* the call returns the partially annotated original PDF, the drawn regions
\* retained, and not a substitute report.
C13_PartialArtifactReturned ==
    (RaisedAndSettled /\ drawn # <<>>) => outcome = Resolved("pdf", "pdf")

\* region k is a score or comment region whose image is rendered and embedded
\* without failure
ImageAvailable(k) ==
    /\ dlocs[k].type \in {"score", "comment"}
    /\ dlocs[k].type \notin dfails
    /\ dargs.ctx

\* C14: when the image of one located region cannot be rendered or embedded, only
\* that region is skipped: the call returns the annotated original PDF and every
\* region whose image is available has been drawn.
C14_OnlyFailedRegionSkipped ==
    (pc = "done" /\ dlocs # <<>>) =>
        /\ outcome = Resolved("pdf", "pdf")
        /\ \A k \in 1..Len(dlocs) :
               ImageAvailable(k) => \E n \in 1..Len(drawn) : drawn[n].region = k


-----------------------------------------------------------------------------
(* generateReportPDFBlob (part_000 lines 714-737): the report the catch    *)
(* clause of getAnnotatedFileBlob returns.  The report is the sequence of  *)
(* text lines written with doc.text, in order.                             *)

ReportCharWidth == 2    \* width of a glyph at font size 10, in the unit of maxWidth

\* doc.splitTextToSize(text, maxWidth): the text cut into lines no wider than
\* maxWidth
splitTextToSize(text, maxWidth) ==
    LET perLine == maxWidth \div ReportCharWidth
    IN  [n \in 1..CeilDiv(Len(text), perLine) |->
           SubSeq(text, (n - 1) * perLine + 1, Min(n * perLine, Len(text)))]

TxtGradingReport == <<"G", "r", "a", "d", "i", "n", "g", " ", "R", "e", "p", "o", "r", "t">>
TxtFilePrefix == <<"F", "i", "l", "e", ":", " ">>
TxtScorePrefix == <<"S", "c", "o", "r", "e", ":", " ">>
TxtInstructorPrefix == <<"I", "n", "s", "t", "r", "u", "c", "t", "o", "r", ":", " ">>

\* generateReportPDFBlob(originalFileName, result, instructor), window.jspdf loaded
generateReportPDFBlob(originalFileName, result, instructor) ==
    << TxtGradingReport,
       TxtFilePrefix \o originalFileName,
       TxtScorePrefix \o DecimalString(result.score) >>
      \o splitTextToSize(result.summary, 180)
      \o (IF instructor.given /\ instructor.enabled
          THEN << TxtInstructorPrefix \o instructor.name >>
          ELSE <<>>)

TxtFine == <<"f", "i", "n", "e">>
TxtWellDone == <<"W", "e", "l", "l", " ", "d", "o", "n", "e">>
TxtSummaryLong == [n \in 1..100 |-> "s"]

\* GradingResult: score, summary, teacher_comment
ResultChoices ==
    [score : {87},
     summary : {TxtFine, TxtWellDone, TxtSummaryLong},
     teacher_comment : {TxtWellDone, <<>>}]

\* getAnnotatedFileBlob(file, result, instructor), the arguments kept
InitReport ==
    /\ file \in [type : FileTypes, name : FileNames]
    /\ libs \in Libs
    /\ pc = "start"
    /\ reader = "idle"
    /\ caught = ""
    /\ outcome = Pending
    /\ WordOff
    /\ XlsOff
    /\ PdfOff
    /\ LayoutOff
    /\ DrawOff
    /\ rargs \in [result : ResultChoices, instructor : InstructorChoices]
    /\ CallsOff
    /\ LaterOff

SpecReport == InitReport /\ [][NextPipe]_vars

\* the blob the catch clause returned, as text
ReportText == Flatten(generateReportPDFBlob(file.name, rargs.result, rargs.instructor))

\* the fallback report was substituted for the annotated document
ReportSubstituted == pc = "done" /\ caught # "" /\ outcome.state = "resolved"

\* the text, or a truncation of it that keeps at least its first character
ContainsTruncated(report, text) ==
    \/ text = <<>>
    \/ \E n \in 1..Len(text) : includes(report, SubSeq(text, 1, n))

\* C15: a substituted fallback report contains the score, the teacher comment
\* (possibly truncated) and, when the signature is enabled, the instructor's name,
\* and the returned extension is 'pdf' whatever the input format.
C15_ReportContents ==
    ReportSubstituted =>
        /\ outcome.extension = "pdf"
        /\ includes(ReportText, DecimalString(rargs.result.score))
        /\ ContainsTruncated(ReportText, rargs.result.teacher_comment)
        /\ (InstructorEnabled(rargs) => includes(ReportText, rargs.instructor.name))


-----------------------------------------------------------------------------
(* Two invocations of getAnnotatedFileBlob in flight at once.  JavaScript  *)
(* runs each invocation without interruption from one await to the next,   *)
(* so an action is the code between two awaits.  annotateWord awaits only  *)
(* before the parse and after the serialisation; annotatePdf awaits once    *)
(* per page of the scan (getPage, getTextContent).                         *)

notTwo == <<pipeVars, wordVars, xlsVars, pdfVars, layoutVars, drawVars, rargs, laterVars>>

Invocations == {1, 2}

\* one array declared at module level and used by every call
ModuleArray(inv) == 1

\* line 465, const locations: PdfLocation[] = []: each call of annotatePdf
\* creates an array of its own
LocalArray(inv) == inv

\* lines 512-551, the while loop of findAndAdd for one keyword
RECURSIVE WhileFind(_, _, _, _, _, _)
WhileFind(items, i, keyword, type, start, locs) ==
    LET idx == indexOf(FullPageStr(items), keyword, start)
    IN  IF idx = -1 THEN locs
        ELSE WhileFind(items, i, keyword, type, idx + 1,
                       AddIfFree(locs, Candidate(items, i, keyword, idx, type)))

RECURSIVE ForEachKeyword(_, _, _, _, _, _)
ForEachKeyword(keywords, n, type, items, i, locs) ==
    IF n > Len(keywords) THEN locs
    ELSE ForEachKeyword(keywords, n + 1, type, items, i,
                        WhileFind(items, i, keywords[n], type, 0, locs))

\* findAndAdd(keywords, type) on page i, lines 510-553
findAndAdd(keywords, type, items, i, locs) ==
    ForEachKeyword(keywords, 1, type, items, i, locs)

\* lines 479-558: the body of the page loop after its two awaits
ScanPage(kw, items, i, instructor, locs) ==
    LET s == findAndAdd(kw.score, "score", items, i, locs)
        c == findAndAdd(kw.comment, "comment", items, i, s)
    IN  IF instructor.given THEN findAndAdd(kw.instructor, "instructor", items, i, c)
        ELSE c

\* lines 323-350 and 353-365: the two loops of annotateWord, run to their end
RECURSIVE CellLoop(_, _, _)
CellLoop(st, i, a) ==
    IF i >= Len(Cells(st.doc)) THEN st
    ELSE CellLoop(CellIteration(st, Cells(st.doc)[i + 1], a), i + 1, a)

RECURSIVE ParagraphLoop(_, _, _)
ParagraphLoop(st, i, a) ==
    IF i >= Len(Paragraphs(st.doc)) THEN st
    ELSE ParagraphLoop(ParagraphIteration(st, Paragraphs(st.doc)[i + 1], a), i + 1, a)

\* lines 315-367: parse, both loops on a new Set, serialise
AnnotateWordDocument(doc, a) ==
    ParagraphLoop(CellLoop([doc |-> doc, mod |-> {}, log |-> <<>>], 0, a), 0, a).doc

\* ---- the inputs explored ----

DocxFile == [type |-> WORD, name |-> <<"a", ".", "d", "o", "c", "x">>]
PdfFile == [type |-> "", name |-> <<"a", ".", "p", "d", "f">>]

TwoArgChoices ==
    [score : {87}, teacher_comment : {TxtOk},
     instructor : {NoInstructor,
                   [given |-> TRUE, enabled |-> TRUE, name |-> TxtLi,
                    fontStyle |-> "standard"]}]

TwoPdfChoices ==
    {<<p1, p2>> :
        p1 \in { << Item(TxtScore, 0, 100, 2, 12) >>,
                 << Item(KwTeacherComments, 0, 100, 2, 12),
                    Item(KwQianMing, 0, 112, 2, 12) >> },
        p2 \in LaterPageChoices}

TwoDocChoices ==
    { [row |-> << Cell(<< Para(FALSE, KwPingFen) >>), Cell(<<>>) >>, body |-> <<>>],
      [row |-> << Cell(<< Para(TRUE, KwJiaoShiPingYu) >>), Cell(<< Para(TRUE, TxtOld) >>) >>,
       body |-> << Para(FALSE, TxtScoreColon), Para(TRUE, TxtAb) >>] }

\* the arguments of one invocation: the file is the pages of a PDF or the
\* document.xml of a docx (<<>> for the one it is not)
CallChoices ==
    [file : {PdfFile}, pages : TwoPdfChoices, doc : {<<>>}, args : TwoArgChoices]
      \cup [file : {DocxFile}, pages : {<<>>}, doc : TwoDocChoices, args : TwoArgChoices]

NoResult == [blob |-> <<>>, extension |-> ""]

NewCall(input) ==
    [input |-> input, pc |-> "start", page |-> 0, result |-> NoResult,
     overlapped |-> FALSE]

\* the lists as module initialisation leaves them (lines 5-7)
KeywordLists ==
    [score |-> SCORE_KEYWORDS, comment |-> COMMENT_KEYWORDS,
     instructor |-> INSTRUCTOR_KEYWORDS]

InitTwo ==
    /\ file = [type |-> "", name |-> <<>>]
    /\ libs = [JSZip |-> TRUE, XLSX |-> TRUE, pdfjsLib |-> TRUE, PDFLib |-> TRUE,
               jspdf |-> TRUE]
    /\ pc = "off"
    /\ reader = "idle"
    /\ caught = ""
    /\ outcome = Pending
    /\ rargs = <<>>
    /\ LaterOff
    /\ WordOff
    /\ XlsOff
    /\ PdfOff
    /\ LayoutOff
    /\ DrawOff
    /\ kwlists = KeywordLists
    /\ \E a \in CallChoices, b \in CallChoices :
         /\ (a.file # b.file \/ a.pages # b.pages \/ a.doc # b.doc)
         /\ calls = [inv \in Invocations |-> NewCall(IF inv = 1 THEN a ELSE b)]
    /\ arrays = [id \in Invocations |-> <<>>]

\* history: the other invocation is between its first step and its return
InFlight(inv) == calls[inv].pc \notin {"start", "done"}
Other(inv) == CHOOSE o \in Invocations : o # inv
Overlap(inv) == calls[inv].overlapped \/ InFlight(Other(inv))

\* lines 237-249 and 462-467: the dispatch, then annotatePdf up to its first
\* await inside the page loop
PdfOpen(inv) ==
    /\ calls[inv].pc = "start"
    /\ AnnotatorFor(calls[inv].input.file) = "pdf"
    /\ arrays' = [arrays EXCEPT ![LocalArray(inv)] = <<>>]
    /\ calls' = [calls EXCEPT ![inv].pc = "scan", ![inv].page = 1,
                              ![inv].overlapped = Overlap(inv)]
    /\ UNCHANGED <<kwlists, notTwo>>

\* lines 479-558: one page of the scan
PdfScanPage(inv) ==
    /\ calls[inv].pc = "scan"
    /\ calls[inv].page <= Len(calls[inv].input.pages)
    /\ arrays' = [arrays EXCEPT ![LocalArray(inv)] =
                    ScanPage(kwlists, calls[inv].input.pages[calls[inv].page],
                             calls[inv].page, calls[inv].input.args.instructor, @)]
    /\ calls' = [calls EXCEPT ![inv].page = @ + 1, ![inv].overlapped = Overlap(inv)]
    /\ UNCHANGED <<kwlists, notTwo>>

\* lines 560-711 and 250-255: the regions of locations are drawn and the
\* document is returned; the drawing is a function of locations
PdfReturn(inv) ==
    /\ calls[inv].pc = "scan"
    /\ calls[inv].page > Len(calls[inv].input.pages)
    /\ calls' = [calls EXCEPT ![inv].pc = "done",
                              ![inv].result = [blob |-> arrays[LocalArray(inv)],
                                               extension |-> "pdf"],
                              ![inv].overlapped = Overlap(inv)]
    /\ UNCHANGED <<kwlists, arrays, notTwo>>

\* lines 237-243 and 306-313: the dispatch, then annotateWord up to document.xml
WordOpen(inv) ==
    /\ calls[inv].pc = "start"
    /\ AnnotatorFor(calls[inv].input.file) = "word"
    /\ calls' = [calls EXCEPT ![inv].pc = "loaded", ![inv].overlapped = Overlap(inv)]
    /\ UNCHANGED <<kwlists, arrays, notTwo>>

\* lines 315-370: parse, annotate, serialise, up to await zip.generateAsync
WordAnnotate(inv) ==
    /\ calls[inv].pc = "loaded"
    /\ calls' = [calls EXCEPT ![inv].pc = "written",
                              ![inv].result =
                                  [blob |-> AnnotateWordDocument(calls[inv].input.doc,
                                                                 calls[inv].input.args),
                                   extension |-> ""],
                              ![inv].overlapped = Overlap(inv)]
    /\ UNCHANGED <<kwlists, arrays, notTwo>>

\* lines 370-371 and 242-255: the zip is generated and returned
WordDone(inv) ==
    /\ calls[inv].pc = "written"
    /\ calls' = [calls EXCEPT ![inv].pc = "done", ![inv].result.extension = "docx",
                              ![inv].overlapped = Overlap(inv)]
    /\ UNCHANGED <<kwlists, arrays, notTwo>>

NextTwo ==
    \E inv \in Invocations :
        \/ PdfOpen(inv)
        \/ PdfScanPage(inv)
        \/ PdfReturn(inv)
        \/ WordOpen(inv)
        \/ WordAnnotate(inv)
        \/ WordDone(inv)

SpecTwo == InitTwo /\ [][NextTwo]_vars

\* the locations of an invocation that runs alone, after its first n pages
RECURSIVE ScanPages(_, _, _)
ScanPages(pages, instructor, n) ==
    IF n = 0 THEN <<>>
    ELSE LET earlier == ScanPages(pages, instructor, n - 1)
         IN  IF earlier = <<>>
             THEN ScanPage(KeywordLists, pages[n], n, instructor, <<>>)
             ELSE ScanPage(KeywordLists, pages[n], n, instructor, earlier)

\* what getAnnotatedFileBlob returns for the input when no other invocation runs
RunAlone(input) ==
    IF AnnotatorFor(input.file) = "pdf"
    THEN [blob |-> ScanPages(input.pages, input.args.instructor, Len(input.pages)),
          extension |-> "pdf"]
    ELSE [blob |-> AnnotateWordDocument(input.doc, input.args), extension |-> "docx"]

\* C16: under every interleaving of two invocations on different files, each
\* invocation returns what it returns when run alone, its locations hold at every
\* await only what its own scan put there, and the three keyword lists stay as
\* module initialisation left them.
C16_Isolation ==
    /\ kwlists = KeywordLists
    /\ \A inv \in Invocations :
          /\ calls[inv].pc = "done" => calls[inv].result = RunAlone(calls[inv].input)
          /\ calls[inv].pc = "scan" =>
                arrays[LocalArray(inv)] =
                    ScanPages(calls[inv].input.pages, calls[inv].input.args.instructor,
                              calls[inv].page - 1)

C16_Witness ==
    /\ \A inv \in Invocations :
          /\ calls[inv].pc = "done"
          /\ calls[inv].overlapped
          /\ calls[inv].result.blob # <<>>
    /\ AnnotatorFor(calls[1].input.file) = "pdf"
    /\ AnnotatorFor(calls[2].input.file) = "pdf"
    /\ calls[1].result # calls[2].result


-----------------------------------------------------------------------------
(* Claims about the cells annotateExcel writes.                            *)

\* the text a call of writeToNextCell was given, from its entry in the log
InjectedCellText(e, a) ==
    CASE e.category = "score" -> DecimalString(a.score) \o Slash100Para
      [] e.category = "comment" -> a.teacher_comment
      [] e.category = "instructor" -> SignText(a.instructor)

\* C21: a label found at (R, C) leaves at (R, C + 1) a cell of type 's' whose
\* value is the injected text, synthesised when there was none; a cell that is
\* not the right-hand neighbour of a label cell is never created or changed.
C21_NeighbourWritten ==
    /\ \A n \in 1..Len(xlog) :
          /\ xlog[n].target = <<xlog[n].label[1], xlog[n].label[2] + 1>>
          /\ someIncludes(KeywordsOf(xlog[n].category), sheet[xlog[n].label].v)
          /\ sheet[xlog[n].target].t = "s"
          /\ \E m \in n..Len(xlog) :
                /\ xlog[m].target = xlog[n].target
                /\ sheet[xlog[n].target].v = InjectedCellText(xlog[m], xargs)
    /\ \A addr \in Addresses :
          sheet[addr] # xorig[addr] => \E n \in 1..Len(xlog) : xlog[n].target = addr
    /\ xpass = "done" =>
          \A R \in RangeRows, C \in RangeCols :
              (HasValue(sheet[<<R, C>>]) /\ someIncludes(SCORE_KEYWORDS, sheet[<<R, C>>].v))
                  => \E n \in 1..Len(xlog) : xlog[n].label = <<R, C>>

\* a label in the last column of the range: its neighbour did not exist and is
\* synthesised; and a numeric neighbour is turned into a text cell
C21_Witness ==
    /\ xpass = "done"
    /\ \E n \in 1..Len(xlog) :
          /\ xorig[xlog[n].target] = NoCell
          /\ sheet[xlog[n].target] = StrCell(InjectedCellText(xlog[n], xargs))
    /\ \E n \in 1..Len(xlog) :
          /\ xorig[xlog[n].target].t = "n"
          /\ sheet[xlog[n].target].t = "s"

-----------------------------------------------------------------------------
(* Claims about labels and targets of one pass.                            *)

\* C23: a target that has received injected text is not treated as a label by
\* the scan that continues: no later write of annotateWord or of annotateExcel
\* has an earlier target as its label.
\* The targets looked at hold no keyword in the input, so that a match on them
\* can only come from the injected text.
C23_InjectedNeverLabel ==
    /\ \A m, n \in 1..Len(wlog) :
          (m < n /\ wrun = 1
                 /\ ~ someIncludes(AllKeywords, TargetText(worig, wlog[m].target)))
              => wlog[n].label # wlog[m].target
    /\ \A m, n \in 1..Len(xlog) :
          (m < n /\ ~ someIncludes(AllKeywords, xorig[xlog[m].target].v))
              => xlog[n].label # xlog[m].target

\* the text holds a keyword of a category the cell pass scans for
HoldsLabel(text, a) ==
    \/ someIncludes(SCORE_KEYWORDS, text)
    \/ someIncludes(COMMENT_KEYWORDS, text)
    \/ InstructorEnabled(a) /\ someIncludes(INSTRUCTOR_KEYWORDS, text)

\* C24: the cell pass of annotateWord never writes into a cell that holds a label
\* keyword in the input, so that in a row of adjacent label cells no label is
\* replaced.
C24_LabelNeverTarget ==
    \A n \in 1..Len(wlog) :
        (wrun = 1 /\ wlog[n].pass = "cells")
            => ~ HoldsLabel(TargetText(worig, wlog[n].target), wargs)

-----------------------------------------------------------------------------
(* Claims about the regions the scan of annotatePdf discards.              *)

\* Two axis-aligned boxes share interior area.
ShareInterior(a, b) ==
    /\ Max(a.x, b.x) < Min(a.x + a.width, b.x + b.width)
    /\ Max(a.y, b.y) < Min(a.y + a.height, b.y + b.height)

\* the occurrence of keyword at idx on page i was added to locations, or a
\* location of the same page shares interior area with its box
AddedOrOverlapped(i, keyword, idx, type) ==
    LET cand == Candidate(pdfPages[i], i, keyword, idx, type)
    IN  \/ \E n \in 1..Len(locations) : locations[n] = cand
        \/ \E n \in 1..Len(locations) :
              locations[n].page = i - 1 /\ ShareInterior(locations[n], cand)

\* C25: a candidate region is discarded only when its box shares interior area
\* with an accepted region of its page, so that two occurrences whose boxes merely
\* touch along an edge are both accepted.
C25_TouchingBothAccepted ==
    ppass = "located" =>
        \A i \in 1..Len(pdfPages) : \A type \in ScannedCategories :
            \A k \in 1..Len(KeywordsOf(type)) :
                \A idx \in 0..Len(FullPageStr(pdfPages[i])) :
                    OccursAt(FullPageStr(pdfPages[i]), KeywordsOf(type)[k], idx)
                        => AddedOrOverlapped(i, KeywordsOf(type)[k], idx, type)

-----------------------------------------------------------------------------
(* Claims about instructor regions when no signature is drawn.             *)

\* the scan found instructor keywords only (it looks for them when an instructor
\* argument is given, line 557)
OnlyInstructorRegions ==
    /\ dargs.instructor.given
    /\ Len(dlocs) > 0
    /\ \A n \in 1..Len(dlocs) : dlocs[n].type = "instructor"

\* C26: with the signature disabled or no signature image available, a PDF whose
\* only keyword occurrences are instructor keywords receives the fallback page
\* with score and comment, and no signature is drawn.
C26_InstructorOnlyFallsBack ==
    ( /\ dphase = "left"
      /\ caught = ""
      /\ dargs.ctx
      /\ OnlyInstructorRegions
      /\ (~ dargs.instructor.enabled \/ dassets.signatureImage = NoImage) )
        => /\ \E n \in 1..Len(drawn) : drawn[n].type = "score" /\ drawn[n].region = 0
           /\ \E n \in 1..Len(drawn) : drawn[n].type = "comment" /\ drawn[n].region = 0
           /\ \A n \in 1..Len(drawn) : drawn[n].type # "instructor"

-----------------------------------------------------------------------------
(* downloadBatchAsZip (part_000 lines 281-303).  Each item holds a File and  *)
(* whether its annotator raises; getAnnotatedFileBlob is taken with its      *)
(* dispatch and its catch clause.  The folder is the JSZip folder object:    *)
(* file(name, data) stores data under name, replacing an entry of that name. *)

\* name.split('.')[0]
SplitAtDot(name) ==
    LET i == indexOf(name, <<".">>, 0)
    IN  IF i = -1 THEN name ELSE SubSeq(name, 1, i)

\* `Graded_${item.file.name.split('.')[0]}.${extension}`
GradedName(name, extension) == <<"Graded_">> \o SplitAtDot(name) \o <<".", extension>>

\* lines 236-261 for one item: the promise getAnnotatedFileBlob returns
getAnnotatedFileBlob(f, throws, l) ==
    CASE AnnotatorFor(f) = "unsupported" -> CatchClause(l, ErrUnsupported)
      [] throws                          -> CatchClause(l, "annotator failed")
      [] AnnotatorFor(f) = "word"        -> Resolved("docx", "docx")
      [] AnnotatorFor(f) = "excel"       -> Resolved("xlsx", "xlsx")
      [] AnnotatorFor(f) = "pdf"         -> Resolved("pdf", "pdf")

\* folder.file(fileName, blob)
FolderFile(folder, fileName, k) ==
    [n \in DOMAIN folder \cup {fileName} |-> IF n = fileName THEN k ELSE folder[n]]

MaxZipItems == 3

\* two files of one name (taken from two folders of an uploaded zip, line 131),
\* names that differ after the first dot, and a pdf beside a docx of its base name
ZipFileNames ==
    { <<"h", "w", ".", "d", "o", "c", "x">>,
      <<"h", "w", ".", "p", "d", "f">>,
      <<"h", "w", ".", "v", "1", ".", "d", "o", "c", "x">>,
      <<"h", "w", ".", "v", "2", ".", "d", "o", "c", "x">>,
      <<"a", ".", "x", "l", "s", "x">> }

ZipItemChoices ==
    { [file |-> [type |-> getMimeTypeFromExtension(n), name |-> n], throws |-> t] :
        n \in ZipFileNames, t \in BOOLEAN }

InitZip ==
    /\ PipeIdle
    /\ QueueOff
    /\ GradeOff
    /\ WordOff
    /\ XlsOff
    /\ PdfOff
    /\ LayoutOff
    /\ DrawOff
    /\ zitems \in SeqsUpTo(ZipItemChoices, MaxZipItems)
    /\ zlibs \in [JSZip : BOOLEAN, jspdf : BOOLEAN]
    /\ zk = 0
    /\ zfolder = <<>>
    /\ zlog = [k \in 1..Len(zitems) |-> ""]
    /\ zphase = "start"

notZip == <<pipeVars, wordVars, xlsVars, pdfVars, layoutVars, drawVars, rargs, twoVars,
           queueVars, gradeVars>>

\* lines 282-284
ZipStart ==
    /\ zphase = "start"
    /\ IF ~ zlibs.JSZip
       THEN zphase' = "thrown" /\ zk' = zk
       ELSE zphase' = "loop" /\ zk' = 1
    /\ UNCHANGED <<zitems, zlibs, zfolder, zlog, notZip>>

\* lines 286-294: one iteration of the loop over items
ZipItem ==
    /\ zphase = "loop"
    /\ zk <= Len(zitems)
    /\ LET item == zitems[zk]
           got  == getAnnotatedFileBlob(item.file, item.throws, zlibs)
       IN  IF got.state = "resolved"
           THEN /\ zfolder' = FolderFile(zfolder, GradedName(item.file.name, got.extension), zk)
                /\ zlog' = [zlog EXCEPT ![zk] = "added"]
           ELSE /\ zfolder' = zfolder
                /\ zlog' = [zlog EXCEPT ![zk] = "failed"]
    /\ zk' = zk + 1
    /\ UNCHANGED <<zitems, zlibs, zphase, notZip>>

\* lines 296-302: the archive is generated and offered for download
ZipGenerate ==
    /\ zphase = "loop"
    /\ zk > Len(zitems)
    /\ zphase' = "done"
    /\ UNCHANGED <<zitems, zlibs, zk, zfolder, zlog, notZip>>

NextZip ==
    \/ ZipStart
    \/ ZipItem
    \/ ZipGenerate

SpecZip == InitZip /\ [][NextZip]_vars

\* the items whose getAnnotatedFileBlob call succeeded
AddedItems == {k \in 1..Len(zitems) : zlog[k] = "added"}

\* C30: the archive holds one distinct entry per item whose getAnnotatedFileBlob
\* call succeeded, and an item that failed does not keep the later items out.
C30_OneEntryPerItem ==
    zphase = "done" =>
        /\ Cardinality(DOMAIN zfolder) = Cardinality(AddedItems)
        /\ \A k \in 1..Len(zitems) : zlog[k] \in {"added", "failed"}

-----------------------------------------------------------------------------
(* The batch queue of App (part_002 lines 13-187).  batchItems and          *)
(* isQueueProcessing are React state: a setter call queues an update, a      *)
(* render applies the queued updates in order and commits, and the effect    *)
(* of a commit that changed a dependency runs after it, reading the          *)
(* committed values.  A click is handled once the effect of the last commit  *)
(* has run; a promise of processItem may settle at any moment.  Items are    *)
(* identified by their position: the ids are taken to be distinct.           *)

CONCURRENT_LIMIT == 3

QueuedItem == [status |-> "queued", error |-> "", result |-> ""]

\* the updates, in one shape: the items named, and the flag for setIsQueueProcessing
Update(kind, ids, flag) == [kind |-> kind, ids |-> ids, flag |-> flag]

\* one updater function of setBatchItems applied to one item of prev
ApplyToItem(u, item, i) ==
    IF i \notin u.ids THEN item
    ELSE CASE u.kind = "processing" -> [item EXCEPT !.status = "processing", !.error = ""]
           [] u.kind = "processingAt" -> [item EXCEPT !.status = "processing"]
           [] u.kind = "completed"  -> [item EXCEPT !.status = "completed", !.result = "result"]
           [] u.kind = "error"      -> [item EXCEPT !.status = "error", !.error = "message"]
           [] u.kind = "queued"     -> [item EXCEPT !.status = "queued", !.error = "",
                                                    !.result = ""]

\* one queued update applied to [items, flag, started]
ApplyUpdate(u, st) ==
    IF u.kind = "flag" THEN [st EXCEPT !.flag = u.flag]
    ELSE LET next == [i \in DOMAIN st.items |-> ApplyToItem(u, st.items[i], i)]
         IN  [items |-> next,
              flag |-> st.flag,
              started |-> [i \in DOMAIN st.items |->
                              IF st.items[i].status = "queued" /\ next[i].status = "processing"
                              THEN st.started[i] + 1 ELSE st.started[i]]]

RECURSIVE ApplyUpdates(_, _)
ApplyUpdates(us, st) ==
    IF us = <<>> THEN st ELSE ApplyUpdates(Tail(us), ApplyUpdate(Head(us), st))

\* batchItems.filter(i => i.status === status), as the positions in order
RECURSIVE FilterStatus(_, _, _)
FilterStatus(items, status, from) ==
    IF from > Len(items) THEN <<>>
    ELSE IF items[from].status = status
         THEN <<from>> \o FilterStatus(items, status, from + 1)
         ELSE FilterStatus(items, status, from + 1)

\* the slots counted without the items in progress
slotsAvailableIgnoringProcessing(processingItems) == CONCURRENT_LIMIT

\* line 149: const slotsAvailable = CONCURRENT_LIMIT - processingItems.length
slotsAvailable(processingItems) == CONCURRENT_LIMIT - Len(processingItems)

Range(seq) == {seq[n] : n \in 1..Len(seq)}

MaxBatch == 4     \* files selected
MaxRetries == 1   \* clicks on a retry button

\* handleFileSelect (lines 67-76) has been rendered: every file is 'queued'
InitQueue ==
    /\ PipeIdle
    /\ WordOff
    /\ XlsOff
    /\ PdfOff
    /\ LayoutOff
    /\ DrawOff
    /\ ZipOff
    /\ GradeOff
    /\ \E n \in 0..MaxBatch : batchItems = [i \in 1..n |-> QueuedItem]
    /\ isQueueProcessing = TRUE
    /\ updates = <<>>
    /\ effectDue = TRUE
    /\ inflight = [i \in 1..Len(batchItems) |-> 0]
    /\ launched = [i \in 1..Len(batchItems) |-> 0]
    /\ started = [i \in 1..Len(batchItems) |-> 0]
    /\ retries = 0

notQueue == <<pipeVars, wordVars, xlsVars, pdfVars, layoutVars, drawVars, rargs, twoVars,
             zipVars, gradeVars>>

\* a render: the queued updates are applied in order and committed.  A change of
\* batchItems (every updater returns a new array), of the flag or of a setting is
\* a changed dependency of the effect (line 170).
Render(settingChanged) ==
    /\ ~ effectDue
    /\ updates # <<>> \/ settingChanged
    /\ LET st == ApplyUpdates(updates, [items |-> batchItems, flag |-> isQueueProcessing,
                                        started |-> started])
       IN  /\ batchItems' = st.items
           /\ isQueueProcessing' = st.flag
           /\ started' = st.started
           /\ effectDue' = \/ settingChanged
                           \/ \E n \in 1..Len(updates) : updates[n].kind # "flag"
                           \/ st.flag # isQueueProcessing
    /\ updates' = <<>>
    /\ UNCHANGED <<inflight, launched, retries, notQueue>>

\* lines 136-168: the concurrent queue effect
QueueEffect ==
    /\ effectDue
    /\ effectDue' = FALSE
    /\ LET queuedItems == FilterStatus(batchItems, "queued", 1)
           processingItems == FilterStatus(batchItems, "processing", 1)
           slots == slotsAvailable(processingItems)
           toProcess == SubSeq(queuedItems, 1, Min(slots, Len(queuedItems)))
       IN  IF ~ isQueueProcessing
           THEN UNCHANGED <<updates, inflight, launched>>
           ELSE IF Len(queuedItems) = 0 /\ Len(processingItems) = 0
           THEN /\ updates' = Append(updates, Update("flag", {}, FALSE))
                /\ UNCHANGED <<inflight, launched>>
           ELSE IF slots > 0 /\ Len(queuedItems) > 0
           THEN /\ updates' = Append(updates, Update("processing", Range(toProcess), FALSE))
                /\ inflight' = [i \in DOMAIN inflight |->
                                  IF i \in Range(toProcess) THEN inflight[i] + 1
                                  ELSE inflight[i]]
                /\ launched' = [i \in DOMAIN launched |->
                                  IF i \in Range(toProcess) THEN launched[i] + 1
                                  ELSE launched[i]]
           ELSE UNCHANGED <<updates, inflight, launched>>
    /\ UNCHANGED <<batchItems, isQueueProcessing, started, retries, notQueue>>

\* lines 91-117: processItem reaches the update of success
ItemCompleted(i) ==
    /\ inflight[i] > 0
    /\ inflight' = [inflight EXCEPT ![i] = @ - 1]
    /\ updates' = Append(updates, Update("completed", {i}, FALSE))
    /\ UNCHANGED <<batchItems, isQueueProcessing, effectDue, launched, started, retries,
                   notQueue>>

\* lines 119-131: processItem reaches the catch clause
ItemFailed(i) ==
    /\ inflight[i] > 0
    /\ inflight' = [inflight EXCEPT ![i] = @ - 1]
    /\ updates' = Append(updates, Update("error", {i}, FALSE))
    /\ UNCHANGED <<batchItems, isQueueProcessing, effectDue, launched, started, retries,
                   notQueue>>

\* the item returned to the queue with the flag left as it is
RetryUpdatesKeepFlag(id) == << Update("queued", {id}, FALSE) >>

\* lines 180-186: the two setter calls of handleRetry
RetryUpdates(id) == << Update("queued", {id}, FALSE), Update("flag", {}, TRUE) >>

\* lines 179-187, from the button BatchDashboard shows for an item that is
\* 'error' or 'completed' (BatchDashboard.tsx lines 144-152)
handleRetry(id) ==
    /\ ~ effectDue
    /\ retries < MaxRetries
    /\ batchItems[id].status \in {"error", "completed"}
    /\ updates' = updates \o RetryUpdates(id)
    /\ retries' = retries + 1
    /\ UNCHANGED <<batchItems, isQueueProcessing, effectDue, inflight, launched, started,
                   notQueue>>

NextQueue ==
    \/ \E settingChanged \in BOOLEAN : Render(settingChanged)
    \/ QueueEffect
    \/ \E i \in DOMAIN batchItems : ItemCompleted(i)
    \/ \E i \in DOMAIN batchItems : ItemFailed(i)
    \/ \E id \in DOMAIN batchItems : handleRetry(id)

SpecQueue == InitQueue /\ [][NextQueue]_vars

\* the items a queued update is about to take to 'processing'
PendingStart(i) ==
    \E n \in 1..Len(updates) : updates[n].kind = "processing" /\ i \in updates[n].ids

\* C22: in every reachable state at most CONCURRENT_LIMIT items are 'processing',
\* whatever the interleaving of effect runs, completions, failures and retries,
\* and processItem is launched at most once for each transition of an item from
\* 'queued' to 'processing'.
C22_LimitHolds ==
    /\ Len(FilterStatus(batchItems, "processing", 1)) <= 3
    /\ \A i \in DOMAIN batchItems :
          /\ inflight[i] <= 1
          /\ launched[i] <= started[i] + (IF PendingStart(i) THEN 1 ELSE 0)

\* the limit is reached while an item that ran before was retried and waits for
\* a slot
C22_Witness ==
    /\ Len(FilterStatus(batchItems, "processing", 1)) = 3
    /\ \E i \in DOMAIN batchItems :
          batchItems[i].status = "queued" /\ launched[i] = 1 /\ started[i] = 1

\* a processItem call in flight reaches one of its two updates
ItemSettles == \E i \in DOMAIN batchItems : ItemCompleted(i) \/ ItemFailed(i)

\* Every queued update is rendered, every effect runs, and while calls of
\* extractTextFromFile and gradeDocument are pending one of them settles (which
\* every call does, if each call settles).  Nothing obliges the user to retry.
SpecQueueFair ==
    /\ SpecQueue
    /\ WF_vars(Render(FALSE))
    /\ WF_vars(QueueEffect)
    /\ WF_vars(ItemSettles)

ItemSettled(i) == batchItems[i].status \in {"completed", "error"}
AllItemsSettled == \A i \in DOMAIN batchItems : ItemSettled(i)

\* a queued retry, applied to the committed items, changes the chosen item only
RetryExact ==
    \A n \in 1..Len(updates) :
        updates[n].kind = "queued" =>
            LET next == ApplyUpdate(updates[n], [items |-> batchItems,
                                                 flag |-> isQueueProcessing,
                                                 started |-> started]).items
            IN  \A i \in DOMAIN batchItems :
                    IF i \in updates[n].ids
                    THEN next[i] = [status |-> "queued", error |-> "", result |-> ""]
                    ELSE next[i] = batchItems[i]

\* C27: if every extraction and grading call settles, then from some moment on
\* (the last retry being over) every item is 'completed' or 'error' and
\* isQueueProcessing is false; a 'completed' item has a result, an 'error' item
\* has an error message, and a retry returns exactly the chosen item to 'queued'
\* with error and result cleared.
C27_QueueDrains ==
    /\ <>[](AllItemsSettled /\ ~ isQueueProcessing)
    /\ [](\A i \in DOMAIN batchItems :
            /\ batchItems[i].status = "completed" => batchItems[i].result = "result"
            /\ batchItems[i].status = "error" => batchItems[i].error = "message")
    /\ []RetryExact

\* after a retry the queue has drained again: one item failed, another completed
C27_Witness ==
    /\ retries = 1
    /\ AllItemsSettled
    /\ ~ isQueueProcessing
    /\ updates = <<>>
    /\ \E i \in DOMAIN batchItems : launched[i] = 2
    /\ \E i, j \in DOMAIN batchItems :
          batchItems[i].status = "error" /\ batchItems[j].status = "completed"

-----------------------------------------------------------------------------
(* The sequential queue of the other App (part_002 lines 517-625): the      *)
(* effect calls processNext whenever batchItems, the flag or a setting       *)
(* changed.  The state is the same, without the retry.                      *)

\* lines 545-563 and 618-620: processNext up to its first await
processNext ==
    /\ effectDue
    /\ effectDue' = FALSE
    /\ LET queuedItems == FilterStatus(batchItems, "queued", 1)
       IN  IF ~ isQueueProcessing
           THEN UNCHANGED <<updates, inflight, launched>>
           ELSE IF Len(queuedItems) = 0
           THEN /\ updates' = Append(updates, Update("flag", {}, FALSE))
                /\ UNCHANGED <<inflight, launched>>
           ELSE LET nextItemIndex == queuedItems[1]
                IN  /\ updates' = Append(updates,
                                         Update("processingAt", {nextItemIndex}, FALSE))
                    /\ inflight' = [inflight EXCEPT ![nextItemIndex] = @ + 1]
                    /\ launched' = [launched EXCEPT ![nextItemIndex] = @ + 1]
    /\ UNCHANGED <<batchItems, isQueueProcessing, started, retries, notQueue>>

\* lines 565-614: the awaits of processNext end in the update of success
SeqCompleted(i) == ItemCompleted(i)

\* lines 594-614: the catch clause of processNext, after its pause
SeqFailed(i) == ItemFailed(i)

NextSeqQueue ==
    \/ \E settingChanged \in BOOLEAN : Render(settingChanged)
    \/ processNext
    \/ \E i \in DOMAIN batchItems : SeqCompleted(i)
    \/ \E i \in DOMAIN batchItems : SeqFailed(i)

SpecSeqQueue == InitQueue /\ [][NextSeqQueue]_vars

\* C28: in the sequential queue at most one item is 'processing' at any time: a
\* second item is not started before the item in progress is 'completed' or
\* 'error'.
C28_OneAtATime ==
    /\ Len(FilterStatus(batchItems, "processing", 1)) <= 1
    /\ Cardinality({i \in DOMAIN inflight : inflight[i] > 0}) <= 1

-----------------------------------------------------------------------------
(* The retry loops of gradeWithGemini (part_001 lines 103-169) and          *)
(* gradeWithUniversalAPI (lines 175-260).  A reply of the provider is "ok"  *)
(* or the kind of error that reaches the catch clause: "429", "5xx" (a       *)
(* message with 500 or 503), "network" (Failed to fetch, NetworkError) or    *)
(* "other" (any other message, an empty or unparsable answer included).      *)

MAX_RETRIES_GEMINI == 10
MAX_RETRIES_UNIVERSAL == 5

MAX_RETRIES == IF engine = "gemini" THEN MAX_RETRIES_GEMINI ELSE MAX_RETRIES_UNIVERSAL

Replies == {"ok", "429", "5xx", "network", "other"}

\* Math.pow(2, n) for the attempts the loops reach
RECURSIVE Pow2(_)
Pow2(n) == IF n = 0 THEN 1 ELSE 2 * Pow2(n - 1)

\* the back-off with the cap left out
GeminiBackoffUncapped(n) == Pow2(n) * 5000

\* lines 154-155: const delayTime = Math.min(Math.pow(2, attempt) * 5000, 60000)
GeminiBackoff(n) == Min(Pow2(n) * 5000, 60000)

\* line 243: const delayTime = Math.pow(2, attempt) * 5000
UniversalBackoff(n) == Pow2(n) * 5000

Sleep(ms, n, reply) == [ms |-> ms, attempt |-> n, reply |-> reply]

\* the configuration checks before the loop pass or throw (lines 104, 179-181)
InitGrade ==
    /\ PipeIdle
    /\ WordOff
    /\ XlsOff
    /\ PdfOff
    /\ LayoutOff
    /\ DrawOff
    /\ ZipOff
    /\ QueueOff
    /\ engine \in {"gemini", "universal"}
    /\ attempt = 0
    /\ gpc \in {"call", "thrown"}
    /\ replies = <<>>
    /\ delays = <<>>

notGrade == <<pipeVars, wordVars, xlsVars, pdfVars, layoutVars, drawVars, rargs, twoVars,
             zipVars, queueVars>>

\* lines 112-166: one turn of the while loop of gradeWithGemini
GeminiAttempt(reply) ==
    /\ engine = "gemini"
    /\ gpc = "call"
    /\ attempt < MAX_RETRIES
    /\ replies' = Append(replies, reply)
    /\ IF reply = "ok"
       THEN gpc' = "returned" /\ UNCHANGED <<attempt, delays>>
       ELSE /\ attempt' = attempt + 1
            /\ CASE reply = "429" ->
                      /\ delays' = Append(delays,
                                     Sleep(GeminiBackoff(attempt + 1), attempt + 1, reply))
                      /\ gpc' = IF attempt + 1 = MAX_RETRIES THEN "thrown" ELSE "call"
                 [] reply = "5xx" ->
                      /\ delays' = Append(delays, Sleep(3000, attempt + 1, reply))
                      /\ gpc' = "call"
                 [] OTHER ->
                      /\ delays' = delays
                      /\ gpc' = "thrown"
    /\ UNCHANGED <<engine, notGrade>>

\* lines 197-256: one turn of the while loop of gradeWithUniversalAPI
UniversalAttempt(reply) ==
    /\ engine = "universal"
    /\ gpc = "call"
    /\ attempt < MAX_RETRIES
    /\ replies' = Append(replies, reply)
    /\ IF reply = "ok"
       THEN gpc' = "returned" /\ UNCHANGED <<attempt, delays>>
       ELSE /\ attempt' = attempt + 1
            /\ CASE reply = "429" ->
                      /\ delays' = Append(delays,
                                     Sleep(UniversalBackoff(attempt + 1), attempt + 1, reply))
                      /\ gpc' = "call"
                 [] reply = "network" ->
                      /\ delays' = delays
                      /\ gpc' = "thrown"
                 [] OTHER ->
                      IF attempt + 1 < MAX_RETRIES
                      THEN /\ delays' = Append(delays, Sleep(2000, attempt + 1, reply))
                           /\ gpc' = "call"
                      ELSE /\ delays' = delays
                           /\ gpc' = "thrown"
    /\ UNCHANGED <<engine, notGrade>>

\* lines 168 and 259: the loop condition fails and the function throws
RetriesExhausted ==
    /\ gpc = "call"
    /\ attempt >= MAX_RETRIES
    /\ gpc' = "thrown"
    /\ UNCHANGED <<engine, attempt, replies, delays, notGrade>>

NextGrade ==
    \/ \E reply \in Replies : GeminiAttempt(reply)
    \/ \E reply \in Replies : UniversalAttempt(reply)
    \/ RetriesExhausted

SpecGrade == InitGrade /\ [][NextGrade]_vars

\* C29: whatever the sequence of error kinds, gradeWithGemini makes at most 10
\* calls and gradeWithUniversalAPI at most 5, an invocation that can make no
\* further step has returned or thrown (and every step but the last adds a call,
\* so it gets there), a network failure in gradeWithUniversalAPI is the last
\* call, and the delay after a 429 of Gemini is min(2^attempt * 5000, 60000) ms,
\* at most 60000 ms.
C29_RetryBound ==
    /\ engine = "gemini" => Len(replies) <= 10
    /\ engine = "universal" => Len(replies) <= 5
    /\ gpc \in {"call", "returned", "thrown"}
    /\ gpc = "call" => (attempt = Len(replies) /\ ENABLED NextGrade)
    /\ engine = "universal" =>
          \A n \in 1..Len(replies) :
              replies[n] = "network" => (n = Len(replies) /\ gpc = "thrown")
    /\ engine = "gemini" =>
          \A n \in 1..Len(delays) :
              delays[n].reply = "429" =>
                  /\ delays[n].ms = (IF delays[n].attempt >= 4 THEN 60000
                                     ELSE (2 ^ delays[n].attempt) * 5000)
                  /\ delays[n].ms <= 60000

\* the tenth call of Gemini was answered with a 429 like the nine before it, and
\* the function has thrown after the capped delay
C29_Witness ==
    /\ engine = "gemini"
    /\ gpc = "thrown"
    /\ Len(replies) = 10
    /\ \A n \in 1..10 : replies[n] = "429"
    /\ delays[10].ms = 60000


====
